---- MODULE Spec2Model ----
(***************************************************************************)
(* Model of the stage2 trade indexer (src/stage2/src): the SQLite store    *)
(* (db/schema.py, db/store.py), the OrderFilled decoder                    *)
(* (indexer/trade_decoder.py), the Gamma metadata normalizer              *)
(* (gamma/client.py) and the indexing run (indexer/run.py).                *)
(*                                                                         *)
(* Python strings that the code parses (token ids) are sequences of        *)
(* one-character strings; None is the one-element sequence NoneTok for     *)
(* string-valued fields and NoBlock (-1) for block-valued ones.            *)
(***************************************************************************)
EXTENDS Integers, Sequences, FiniteSets, TLC

VARIABLES
    events,       \* rows of table events, in rowid order
    markets,      \* rows of table markets, in rowid order
    trades,       \* rows of table trades
    sync_state,   \* table sync_state: key -> last_block, NoBlock when no row
    head,         \* w3.eth.block_number
    gammaVer,     \* which catalogue the metadata service serves
    pc,           \* position of the indexing process
    run,          \* arguments and locals of the run_indexer call in progress
    lastResult,   \* how the last call ended and the range and count it reported
    prevRun,      \* arguments of the last completed run, while nothing changed since
    scanned,      \* blocks inside the range of a run whose fetch and insert completed
    nruns         \* calls started so far

vars == <<events, markets, trades, sync_state, head, gammaVer,
          pc, run, lastResult, prevRun, scanned, nruns>>

storeVars == <<events, markets, trades, sync_state>>

(***************************************************************************)
(* Bounds of the model.                                                    *)
(***************************************************************************)
MaxBlock == 3
MaxRuns == 2
MaxBatch == 2
MaxTokenLen == 3
ChunkSizeSetting == 2

NoBlock == -1
NoneTok == <<"None">>
ValueErrorTok == <<"ValueError">>

Min(a, b) == IF a <= b THEN a ELSE b
Max(a, b) == IF a >= b THEN a ELSE b

(***************************************************************************)
(* str / int conversions on character sequences.                           *)
(***************************************************************************)
Digits == <<"0", "1", "2", "3", "4", "5", "6", "7", "8", "9">>
DigitChars == {"0", "1", "2", "3", "4", "5", "6", "7", "8", "9"}
HexChars == DigitChars \cup {"a", "b", "c", "d", "e", "f"}
HexVal ==
    [c \in HexChars |->
        CASE c = "0" -> 0 [] c = "1" -> 1 [] c = "2" -> 2 [] c = "3" -> 3
          [] c = "4" -> 4 [] c = "5" -> 5 [] c = "6" -> 6 [] c = "7" -> 7
          [] c = "8" -> 8 [] c = "9" -> 9 [] c = "a" -> 10 [] c = "b" -> 11
          [] c = "c" -> 12 [] c = "d" -> 13 [] c = "e" -> 14 [] OTHER -> 15]

SetMin(S) == CHOOSE i \in S : \A j \in S : i <= j
SetMax(S) == CHOOSE i \in S : \A j \in S : j <= i

\* str(n) for a non-negative int: its decimal digits, no leading zero
RECURSIVE StrOfInt(_)
StrOfInt(n) ==
    IF n < 10 THEN <<Digits[n + 1]>>
    ELSE StrOfInt(n \div 10) \o <<Digits[(n % 10) + 1]>>

\* int(s, base) for a sequence s of n digits of that base
RECURSIVE IntOfDigits(_, _, _)
IntOfDigits(s, n, base) ==
    IF n = 0 THEN 0
    ELSE IntOfDigits(s, n - 1, base) * base + HexVal[s[n]]

\* s from its first to its last kept position
StripKept(s, keep) ==
    IF keep = {} THEN <<>> ELSE SubSeq(s, SetMin(keep), SetMax(keep))

\* str.strip(chars): drop the leading and trailing characters that are in chars
Strip(s, chars) == StripKept(s, {i \in 1..Len(s) : s[i] \notin chars})

Whitespace == {" "}
DQuote == {"\""}
SQuote == {"'"}

StartsWith0x(s) == Len(s) >= 2 /\ s[1] = "0" /\ s[2] = "x"

\* the digits after the "0x" prefix: int() needs at least one, all of base 16
HexBodyValue(body) ==
    IF Len(body) > 0 /\ \A i \in 1..Len(body) : body[i] \in HexChars
    THEN StrOfInt(IntOfDigits(body, Len(body), 16))
    ELSE ValueErrorTok

AfterPrefix(trimmed) == SubSeq(trimmed, 3, Len(trimmed))

\* str(int(value, 16)) for a value that starts with "0x"; int() tolerates
\* surrounding whitespace
IntBase16(value) == HexBodyValue(AfterPrefix(Strip(value, Whitespace)))

\* normalize_token_id on the stripped value
NormalizeStripped(value) ==
    IF Len(value) = 0 THEN NoneTok
    ELSE IF StartsWith0x(value) THEN IntBase16(value)
    ELSE IF \A i \in 1..Len(value) : value[i] \in DigitChars
         THEN StrOfInt(IntOfDigits(value, Len(value), 10))
    ELSE value

normalize_token_id(token_id) ==
    IF token_id = NoneTok THEN NoneTok
    ELSE NormalizeStripped(Strip(Strip(Strip(token_id, Whitespace), DQuote), SQuote))

_int_token(value) == normalize_token_id(value)

(***************************************************************************)
(* db/store.py over db/schema.py.  events and markets are the sequences of *)
(* their rows in rowid order.  AUTOINCREMENT hands out an id above every   *)
(* id of the table; rows are never deleted, so that is the number of rows  *)
(* plus one at the least, and the model takes that least value.  trades is *)
(* the set of its rows: nothing in the program reads the id of a trade.    *)
(***************************************************************************)
NextRowId(rows) == Len(rows) + 1

\* the index of the row with this slug, 0 when there is none
RowIndexBySlug(rows, slug) ==
    IF \E i \in 1..Len(rows) : rows[i].slug = slug
    THEN CHOOSE i \in 1..Len(rows) : rows[i].slug = slug
    ELSE 0

\* events.event_id TEXT UNIQUE: another row already holds this event_id
EventIdTaken(rows, payload) ==
    \E i \in 1..Len(rows) :
        rows[i].event_id = payload.event_id /\ rows[i].slug # payload.slug

EventRow(id, payload) ==
    [id |-> id, event_id |-> payload.event_id, slug |-> payload.slug,
     title |-> payload.title]

UpsertEventAt(rows, payload, i) ==
    IF EventIdTaken(rows, payload) THEN [ok |-> FALSE, rows |-> rows, id |-> 0]
    ELSE IF i = 0
    THEN [ok |-> TRUE, rows |-> Append(rows, EventRow(NextRowId(rows), payload)),
          id |-> NextRowId(rows)]
    ELSE [ok |-> TRUE, rows |-> [rows EXCEPT ![i] = EventRow(rows[i].id, payload)],
          id |-> rows[i].id]

\* INSERT ... ON CONFLICT(slug) DO UPDATE, SELECT id, commit.  A conflict on
\* event_id is not the upsert target: the statement raises IntegrityError.
upsert_event(rows, payload) ==
    UpsertEventAt(rows, payload, RowIndexBySlug(rows, payload.slug))

MarketRow(id, payload, yes, no) ==
    [id |-> id, event_id |-> payload.event_id, slug |-> payload.slug,
     condition_id |-> payload.condition_id,
     yes_token_id |-> yes, no_token_id |-> no]

UpsertMarketAt(rows, payload, i, yes, no) ==
    IF yes = ValueErrorTok \/ no = ValueErrorTok
    THEN [ok |-> FALSE, rows |-> rows, id |-> 0]
    ELSE IF i = 0
    THEN [ok |-> TRUE,
          rows |-> Append(rows, MarketRow(NextRowId(rows), payload, yes, no)),
          id |-> NextRowId(rows)]
    ELSE [ok |-> TRUE,
          rows |-> [rows EXCEPT ![i] = MarketRow(rows[i].id, payload, yes, no)],
          id |-> rows[i].id]

\* payload: the dict normalize_market_payload returns; the token ids are
\* normalized as the parameters are built, which raises when one does not parse
upsert_market(rows, payload) ==
    UpsertMarketAt(rows, payload, RowIndexBySlug(rows, payload.slug),
                   normalize_token_id(payload.yes_token_id),
                   normalize_token_id(payload.no_token_id))

TradeKeyNeverTaken(rows, t) == FALSE

\* trades: UNIQUE(tx_hash, log_index)
TradeKeyTaken(rows, t) ==
    \E row \in rows : row.tx_hash = t.tx_hash /\ row.log_index = t.log_index

TradeRow(t) ==
    [market_id |-> t.market_id,
     tx_hash |-> t.tx_hash,
     log_index |-> t.log_index,
     block_number |-> t.block_number,
     side |-> t.side,
     outcome |-> t.outcome,
     token_id |-> normalize_token_id(t.token_id)]

\* executemany(INSERT OR IGNORE ...): one statement per element, in order; a row
\* that violates the unique key is ignored and does not count as a change
RECURSIVE ExecuteManyInsertOrIgnore(_, _, _)
ExecuteManyInsertOrIgnore(rows, batch, changes) ==
    IF Len(batch) = 0 THEN [ok |-> TRUE, rows |-> rows, ret |-> changes]
    ELSE IF TradeKeyTaken(rows, Head(batch))
         THEN ExecuteManyInsertOrIgnore(rows, Tail(batch), changes)
         ELSE ExecuteManyInsertOrIgnore(
                  rows \cup {TradeRow(Head(batch))}, Tail(batch), changes + 1)

insert_trades_attempted(rows, batch) ==
    [ok |-> TRUE, rows |-> ExecuteManyInsertOrIgnore(rows, batch, 0).rows,
     ret |-> Len(batch)]

\* returns conn.total_changes - before; building the parameter tuples raises
\* when a token id does not parse, before any statement runs
insert_trades(rows, batch) ==
    IF Len(batch) = 0 THEN [ok |-> TRUE, rows |-> rows, ret |-> 0]
    ELSE IF \E i \in 1..Len(batch) :
                normalize_token_id(batch[i].token_id) = ValueErrorTok
    THEN [ok |-> FALSE, rows |-> rows, ret |-> 0]
    ELSE ExecuteManyInsertOrIgnore(rows, batch, 0)

SyncKeys == {"trade_sync", "market_sync"}

update_sync_state_next(table, key, last_block) ==
    [table EXCEPT ![key] = last_block + 1]

update_sync_state(table, key, last_block) == [table EXCEPT ![key] = last_block]

get_sync_state_truthy(table, key) == IF table[key] = 0 THEN NoBlock ELSE table[key]

\* None (NoBlock) when the key has no row
get_sync_state(table, key) == table[key]

FallbackMarket ==
    [id |-> 0, event_id |-> 0, slug |-> "", condition_id |-> "",
     yes_token_id |-> NoneTok, no_token_id |-> NoneTok]

\* a NULL column equals nothing, and nothing equals a NULL parameter
RowsWithToken(rows, normalized) ==
    IF normalized = NoneTok THEN {}
    ELSE {rows[i] : i \in {j \in 1..Len(rows) :
                              rows[j].yes_token_id = normalized
                              \/ rows[j].no_token_id = normalized}}

OrFallback(hits) == IF hits = {} THEN {FallbackMarket} ELSE hits

fetch_market_by_token_id_fallback(rows, token_id) ==
    OrFallback(RowsWithToken(rows, normalize_token_id(token_id)))

\* SELECT * FROM markets WHERE yes_token_id = ? OR no_token_id = ?, fetchone():
\* the rows fetchone() may yield (the query states no order); {} stands for None.
fetch_market_by_token_id(rows, token_id) ==
    RowsWithToken(rows, normalize_token_id(token_id))

(***************************************************************************)
(* indexer/trade_decoder.py.  The data of a log is its 32-byte words plus  *)
(* the number of hex characters left over after the last whole word.       *)
(***************************************************************************)
HexCharsPerWord == 64
MinTopics == 3
MinWords == 6

DataLen(data) == HexCharsPerWord * Len(data.words) + data.extra

\* raises ValueError when the length is not a multiple of 64 hex characters
_chunk_data_words(data) ==
    IF DataLen(data) % HexCharsPerWord # 0
    THEN [err |-> TRUE, words |-> <<>>]
    ELSE [err |-> FALSE, words |-> data.words]

DecodeError == [err |-> TRUE]

(***************************************************************************)
(* decimal.Decimal as the decoder uses it: a value is its coefficient, the *)
(* sequence of its decimal digits from the most significant one, and its   *)
(* exponent.  The context precision is DecimalPrec significant digits and  *)
(* the rounding is ROUND_HALF_EVEN.                                        *)
(***************************************************************************)
DecimalPrec == 40
UsdcScale == 1000000

RECURSIVE DigitsOfInt(_)
DigitsOfInt(n) ==
    IF n < 10 THEN <<n>> ELSE Append(DigitsOfInt(n \div 10), n % 10)

DecimalZero == [coef |-> <<0>>, exp |-> 0]

\* the coefficient plus one unit in its last place
RECURSIVE IncDigits(_, _)
IncDigits(ds, i) ==
    IF i = 0 THEN <<1>> \o ds
    ELSE IF ds[i] < 9 THEN [ds EXCEPT ![i] = @ + 1]
    ELSE IncDigits([ds EXCEPT ![i] = 0], i - 1)

\* ROUND_HALF_EVEN of the digits ds followed by the fraction rem / b
RoundHalfEven(ds, rem, b) ==
    IF 2 * rem > b \/ (2 * rem = b /\ ds[Len(ds)] % 2 = 1)
    THEN IncDigits(ds, Len(ds))
    ELSE ds

\* the digits from the first one that is not 0
Significant(ds) ==
    IF \A i \in 1..Len(ds) : ds[i] = 0 THEN <<>>
    ELSE SubSeq(ds, SetMin({i \in 1..Len(ds) : ds[i] # 0}), Len(ds))

ThreeDigits(q) == <<q \div 100, (q \div 10) % 10, q % 10>>

\* the digits past the DecimalPrec-th, as an integer
RECURSIVE TailValue(_, _)
TailValue(ds, i) ==
    IF i <= DecimalPrec THEN 0 ELSE TailValue(ds, i - 1) * 10 + ds[i]

RECURSIVE PowerOfTen(_)
PowerOfTen(n) == IF n = 0 THEN 1 ELSE 10 * PowerOfTen(n - 1)

\* the quotient digits ds with nfrac fractional places and remainder rem, cut
\* to the precision
RoundToPrec(ds, nfrac, rem, b) ==
    IF rem = 0 /\ Len(ds) <= DecimalPrec THEN [coef |-> ds, exp |-> 0 - nfrac]
    ELSE [coef |-> RoundHalfEven(SubSeq(ds, 1, DecimalPrec),
                                 TailValue(ds, Len(ds)) * b + rem,
                                 PowerOfTen(Len(ds) - DecimalPrec) * b),
          exp |-> Len(ds) - DecimalPrec - nfrac]

\* long division, three digits a step (amounts stay below 2^31 / 1000): ds the
\* significant digits so far, nfrac the fractional places produced, rem the
\* remainder
RECURSIVE DivideDigits(_, _, _, _)
DivideDigits(ds, nfrac, rem, b) ==
    IF rem = 0 \/ Len(ds) >= DecimalPrec THEN RoundToPrec(ds, nfrac, rem, b)
    ELSE DivideDigits(Significant(ds \o ThreeDigits((rem * 1000) \div b)),
                      nfrac + 3, (rem * 1000) % b, b)

\* Decimal(a) / Decimal(b) for a > 0, b > 0
DecimalDivide(a, b) ==
    DivideDigits(Significant(DigitsOfInt(a \div b)), 0, a % b, b)

\* the number of zeros the coefficient ends with
RECURSIVE TrailingZeros(_, _)
TrailingZeros(ds, i) ==
    IF i <= 1 \/ ds[i] # 0 THEN 0 ELSE 1 + TrailingZeros(ds, i - 1)

StripZeros(d, n) ==
    [coef |-> SubSeq(d.coef, 1, Len(d.coef) - n), exp |-> d.exp + n]

\* Decimal.normalize(): no trailing zeros in the coefficient; zero is 0
DecimalNormalize(d) ==
    IF \A i \in 1..Len(d.coef) : d.coef[i] = 0 THEN DecimalZero
    ELSE StripZeros(d, TrailingZeros(d.coef, Len(d.coef)))

DigitString(ds) == [i \in 1..Len(ds) |-> Digits[ds[i] + 1]]

Zeros(n) == [i \in 1..n |-> "0"]

\* the digits with the point after the first dotplace of them
PointAt(cs, dotplace) ==
    IF dotplace <= 0 THEN <<"0", ".">> \o Zeros(0 - dotplace) \o cs
    ELSE IF dotplace >= Len(cs) THEN cs \o Zeros(dotplace - Len(cs))
    ELSE SubSeq(cs, 1, dotplace) \o <<".">> \o SubSeq(cs, dotplace + 1, Len(cs))

ExponentString(e) ==
    IF e = 0 THEN <<>>
    ELSE IF e > 0 THEN <<"E", "+">> \o StrOfInt(e)
    ELSE <<"E", "-">> \o StrOfInt(0 - e)

\* Decimal.__str__ on leftdigits = exponent + number of digits: plain notation
\* when the exponent is not positive and leftdigits > -6, else scientific with
\* one digit before the point
StrWithLeftDigits(d, leftdigits) ==
    IF d.exp <= 0 /\ leftdigits > -6
    THEN PointAt(DigitString(d.coef), leftdigits)
    ELSE PointAt(DigitString(d.coef), 1) \o ExponentString(leftdigits - 1)

DecimalStr(d) == StrWithLeftDigits(d, d.exp + Len(d.coef))

SideOfMakerZero(maker_asset_id, taker_asset_id) ==
    IF maker_asset_id = 0 THEN "BUY" ELSE "SELL"

SideOf(maker_asset_id, taker_asset_id) ==
    IF maker_asset_id = 0 /\ taker_asset_id # 0 THEN "BUY" ELSE "SELL"

TokenOf(side, maker_asset_id, taker_asset_id) ==
    IF side = "BUY" THEN taker_asset_id ELSE maker_asset_id

TokenAmountOfMaker(side, maker_amount_filled, taker_amount_filled) ==
    maker_amount_filled

TokenAmountOf(side, maker_amount_filled, taker_amount_filled) ==
    IF side = "BUY" THEN taker_amount_filled ELSE maker_amount_filled

UsdcAmountOf(side, maker_amount_filled, taker_amount_filled) ==
    IF side = "BUY" THEN maker_amount_filled ELSE taker_amount_filled

SizeOf(token_amount) ==
    IF token_amount # 0 THEN DecimalDivide(token_amount, UsdcScale) ELSE DecimalZero

\* Decimal(0) / Decimal(n) is a zero, which normalize() turns into 0
PriceOf(usdc_amount, token_amount) ==
    IF token_amount = 0 THEN DecimalZero
    ELSE IF usdc_amount = 0 THEN DecimalZero
    ELSE DecimalDivide(usdc_amount, token_amount)

DecodedFields(log, words, side) ==
    [err |-> FALSE,
     maker_asset_id |-> words[2],
     taker_asset_id |-> words[3],
     maker_amount_filled |-> words[4],
     taker_amount_filled |-> words[5],
     side |-> side,
     token_id |-> StrOfInt(TokenOf(side, words[2], words[3])),
     price |-> DecimalStr(DecimalNormalize(
                   PriceOf(UsdcAmountOf(side, words[4], words[5]),
                           TokenAmountOf(side, words[4], words[5])))),
     size |-> DecimalStr(DecimalNormalize(
                  SizeOf(TokenAmountOf(side, words[4], words[5])))),
     tx_hash |-> log.transactionHash,
     log_index |-> log.logIndex,
     block_number |-> log.blockNumber]

DecodedWords(log, chunked) ==
    IF chunked.err THEN DecodeError
    ELSE IF Len(chunked.words) < MinWords THEN DecodeError
    ELSE DecodedFields(log, chunked.words, SideOf(chunked.words[2], chunked.words[3]))

\* err: the ValueError of a log with too few topics, ragged data or too few words
decode_order_filled_log(log) ==
    IF log.topics < MinTopics THEN DecodeError
    ELSE DecodedWords(log, _chunk_data_words(log.data))

(***************************************************************************)
(* gamma/client.py: the normalizer.  A missing or null JSON field is the   *)
(* empty string (the code tests such fields for truth only).               *)
(***************************************************************************)
\* outcomes[idx].strip().lower() on the labels the catalogue uses
StripLower(label) ==
    CASE label \in {"Yes", "yes", "YES", " Yes "} -> "yes"
      [] label \in {"No", "no", "NO", " No "} -> "no"
      [] OTHER -> label

normalize_event_payload(event) ==
    [event_id |-> event.id, slug |-> event.slug, title |-> event.title]

ParsedIds(normalized) ==
    IF \E i \in 1..Len(normalized) : normalized[i] = ValueErrorTok
    THEN [err |-> TRUE, ids |-> <<>>]
    ELSE [err |-> FALSE, ids |-> SelectSeq(normalized, LAMBDA v : v # NoneTok)]

\* the list branch: normalize every item, keep the truthy ones; a ValueError
\* of normalize_token_id propagates
_parse_clob_token_ids(raw) ==
    ParsedIds([i \in 1..Len(raw) |-> normalize_token_id(raw[i])])

LastHit(clob_ids, hits) == IF hits = {} THEN NoneTok ELSE clob_ids[SetMax(hits)]

\* pairs.get(label): the dict comprehension keeps the last index of a label
PairsGet(outcomes, clob_ids, label) ==
    LastHit(clob_ids, {i \in 1..Min(Len(outcomes), Len(clob_ids)) :
                          StripLower(outcomes[i]) = label})

\* the token paired with the label, when both lists have two items
PairedToken(outcomes, clob_ids, label) ==
    IF Len(clob_ids) >= 2 /\ Len(outcomes) >= 2
    THEN PairsGet(outcomes, clob_ids, label)
    ELSE NoneTok

\* the positional fallback: a falsy choice takes the token at that position
OrPositional(choice, clob_ids, pos) ==
    IF choice = NoneTok /\ Len(clob_ids) >= pos THEN clob_ids[pos] ELSE choice

SkipMarket == [skip |-> TRUE, err |-> FALSE]

NormalizedMarket(market, event_row_id, parsed) ==
    IF parsed.err THEN [skip |-> FALSE, err |-> TRUE]
    ELSE [skip |-> FALSE, err |-> FALSE,
          event_id |-> event_row_id,
          slug |-> market.slug,
          condition_id |-> market.conditionId,
          yes_token_id |->
              OrPositional(PairedToken(market.outcomes, parsed.ids, "yes"),
                           parsed.ids, 1),
          no_token_id |->
              OrPositional(PairedToken(market.outcomes, parsed.ids, "no"),
                           parsed.ids, 2)]

normalize_market_payload_unchecked(market, event_row_id) ==
    NormalizedMarket(market, event_row_id, _parse_clob_token_ids(market.clobTokenIds))

normalize_market_payload(market, event_row_id) ==
    IF market.slug = "" \/ market.conditionId = "" THEN SkipMarket
    ELSE NormalizedMarket(market, event_row_id,
                          _parse_clob_token_ids(market.clobTokenIds))

(***************************************************************************)
(* The environment: the chain behind w3.eth and the catalogue behind the   *)
(* metadata service.  The logs of a block never change; the chain grows    *)
(* (head), the service goes down and up and its catalogue grows.           *)
(***************************************************************************)
OrderFilledData(maker_asset_id, taker_asset_id, maker_amount, taker_amount) ==
    [words |-> <<1, maker_asset_id, taker_asset_id, maker_amount, taker_amount, 0>>,
     extra |-> 0]

RawLog(block, index, data) ==
    [topics |-> 3, data |-> data, transactionHash |-> block,
     logIndex |-> index, blockNumber |-> block]

\* the OrderFilled logs of a block, in log-index order; block 3 holds a log whose
\* data is not a whole number of words
LogsOfBlock(b) ==
    CASE b % 4 = 0 -> <<RawLog(b, 0, OrderFilledData(0, 5, 1, 2)),
                        RawLog(b, 1, OrderFilledData(0, 9, 1, 2))>>
      [] b % 4 = 1 -> <<RawLog(b, 0, OrderFilledData(6, 0, 2, 1)),
                        RawLog(b, 1, OrderFilledData(0, 7, 1, 2))>>
      [] b % 4 = 2 -> <<RawLog(b, 0, OrderFilledData(5, 0, 2, 1))>>
      [] b = 3     -> <<RawLog(b, 0, [words |-> <<1, 0, 6, 1, 2, 0>>, extra |-> 1]),
                        RawLog(b, 1, OrderFilledData(0, 6, 1, 2))>>
      [] OTHER     -> <<RawLog(b, 0, OrderFilledData(0, 7, 1, 2))>>

\* w3.eth.get_logs({fromBlock, toBlock}): the logs of the mined blocks of the range
RECURSIVE GetLogs(_, _, _)
GetLogs(fromBlock, toBlock, chainHead) ==
    IF fromBlock > Min(toBlock, chainHead) THEN <<>>
    ELSE LogsOfBlock(fromBlock) \o GetLogs(fromBlock + 1, toBlock, chainHead)

EventSlugs == {"e1"}

MarketM1 == [slug |-> "m1", conditionId |-> "c1", outcomes |-> <<"Yes", "No">>,
             clobTokenIds |-> << <<"5">>, <<"0", "x", "6">> >>]
MarketM2 == [slug |-> "m2", conditionId |-> "c2", outcomes |-> <<"No", "Yes">>,
             clobTokenIds |-> << <<"8">>, <<" ", "7">> >>]
MarketPlaceholder == [slug |-> "m3", conditionId |-> "", outcomes |-> <<>>,
                      clobTokenIds |-> << <<"9">> >>]

\* a payload without a slug whose first token id does not parse
MarketNoSlug == [slug |-> "", conditionId |-> "c4", outcomes |-> <<"Yes", "No">>,
                 clobTokenIds |-> << <<"0", "x">>, <<"4">> >>]

\* the event object the service serves for a slug
GammaEvent(slug, ver) ==
    [id |-> "ev1", slug |-> slug, title |-> IF ver = 0 THEN "t0" ELSE "t1",
     markets |-> IF ver = 0 THEN <<MarketM1>>
                 ELSE <<MarketM1, MarketPlaceholder, MarketNoSlug, MarketM2>>]

\* GammaClient.get_markets_for_event: raises when the service does not answer (up
\* is FALSE: the retries are exhausted, or no endpoint yields the event)
get_markets_for_event(slug, up, ver) ==
    IF ~up THEN [ok |-> FALSE, event_obj |-> GammaEvent(slug, ver), markets |-> <<>>]
    ELSE [ok |-> TRUE, event_obj |-> GammaEvent(slug, ver),
          markets |-> GammaEvent(slug, ver).markets]

(***************************************************************************)
(* indexer/run.py                                                          *)
(***************************************************************************)
DiscoveryFailed(ev, mk) == [ok |-> FALSE, events |-> ev, markets |-> mk, passes |-> 0]

NoDiscovery(ev, mk) == [ok |-> TRUE, events |-> ev, markets |-> mk, passes |-> 0]

\* the loop of discover_markets: every upsert commits, a raise keeps the earlier ones
RECURSIVE UpsertDiscovered(_, _, _)
AfterUpsert(rows, upserted, rest, event_row_id) ==
    IF ~upserted.ok THEN [ok |-> FALSE, rows |-> rows]
    ELSE UpsertDiscovered(upserted.rows, rest, event_row_id)

UpsertNormalized(rows, normalized, rest, event_row_id) ==
    IF normalized.err THEN [ok |-> FALSE, rows |-> rows]
    ELSE IF normalized.skip THEN UpsertDiscovered(rows, rest, event_row_id)
    ELSE AfterUpsert(rows, upsert_market(rows, normalized), rest, event_row_id)

UpsertDiscovered(rows, payloads, event_row_id) ==
    IF Len(payloads) = 0 THEN [ok |-> TRUE, rows |-> rows]
    ELSE UpsertNormalized(rows, normalize_market_payload(Head(payloads), event_row_id),
                          Tail(payloads), event_row_id)

\* event_payload["slug"] = event_payload["slug"] or event_slug
EventPayload(payload, event_slug) ==
    IF payload.slug = "" THEN [payload EXCEPT !.slug = event_slug] ELSE payload

\* passes: 1 when the fetch-normalize-upsert pass ran to its end, else 0
MarketsUpserted(e, m) ==
    [ok |-> m.ok, events |-> e.rows, markets |-> m.rows,
     passes |-> IF m.ok THEN 1 ELSE 0]

EventUpserted(ev, mk, got, e) ==
    IF ~e.ok THEN DiscoveryFailed(ev, mk)
    ELSE MarketsUpserted(e, UpsertDiscovered(mk, got.markets, e.id))

EventFetched(ev, mk, event_slug, got) ==
    IF ~got.ok THEN DiscoveryFailed(ev, mk)
    ELSE EventUpserted(ev, mk, got,
             upsert_event(ev, EventPayload(normalize_event_payload(got.event_obj),
                                           event_slug)))

discover_markets(ev, mk, event_slug, up, ver) ==
    IF event_slug = "" THEN NoDiscovery(ev, mk)
    ELSE EventFetched(ev, mk, event_slug, get_markets_for_event(event_slug, up, ver))

HeadLookback == 10

determine_block_range_unclamped(from_block, to_block, tx_block, last, chainHead) ==
    LET from1 == IF tx_block # NoBlock /\ from_block = NoBlock THEN tx_block
                 ELSE from_block
        to1 == IF tx_block # NoBlock /\ to_block = NoBlock THEN tx_block ELSE to_block
        to2 == IF from1 # NoBlock /\ to1 = NoBlock THEN from1 ELSE to1
        from2 == IF from1 # NoBlock THEN from1
                 ELSE IF last # NoBlock THEN last + 1
                 ELSE chainHead - HeadLookback
        to3 == IF to2 = NoBlock THEN chainHead ELSE to2
    IN  [ok |-> from2 <= to3, from_block |-> from2, to_block |-> to3]

determine_block_range_from_cursor(from_block, to_block, tx_block, last, chainHead) ==
    LET from1 == IF tx_block # NoBlock /\ from_block = NoBlock THEN tx_block
                 ELSE from_block
        to1 == IF tx_block # NoBlock /\ to_block = NoBlock THEN tx_block ELSE to_block
        to2 == IF from1 # NoBlock /\ to1 = NoBlock THEN from1 ELSE to1
        from2 == IF from1 # NoBlock THEN from1
                 ELSE IF last # NoBlock THEN last
                 ELSE Max(0, chainHead - HeadLookback)
        to3 == IF to2 = NoBlock THEN chainHead ELSE to2
    IN  [ok |-> from2 <= to3, from_block |-> from2, to_block |-> to3]

determine_block_range_tx_first(from_block, to_block, tx_block, last, chainHead) ==
    LET from1 == IF tx_block # NoBlock THEN tx_block ELSE from_block
        to1 == IF tx_block # NoBlock THEN tx_block ELSE to_block
        to2 == IF from1 # NoBlock /\ to1 = NoBlock THEN from1 ELSE to1
        from2 == IF from1 # NoBlock THEN from1
                 ELSE IF last # NoBlock THEN last + 1
                 ELSE Max(0, chainHead - HeadLookback)
        to3 == IF to2 = NoBlock THEN chainHead ELSE to2
    IN  [ok |-> from2 <= to3, from_block |-> from2, to_block |-> to3]

determine_block_range_strict(from_block, to_block, tx_block, last, chainHead) ==
    LET from1 == IF tx_block # NoBlock /\ from_block = NoBlock THEN tx_block
                 ELSE from_block
        to1 == IF tx_block # NoBlock /\ to_block = NoBlock THEN tx_block ELSE to_block
        to2 == IF from1 # NoBlock /\ to1 = NoBlock THEN from1 ELSE to1
        from2 == IF from1 # NoBlock THEN from1
                 ELSE IF last # NoBlock THEN last + 1
                 ELSE Max(0, chainHead - HeadLookback)
        to3 == IF to2 = NoBlock THEN chainHead ELSE to2
    IN  [ok |-> from2 < to3, from_block |-> from2, to_block |-> to3]

\* ok = FALSE: ValueError("from_block must be <= to_block")
determine_block_range(from_block, to_block, tx_block, last, chainHead) ==
    LET from1 == IF tx_block # NoBlock /\ from_block = NoBlock THEN tx_block
                 ELSE from_block
        to1 == IF tx_block # NoBlock /\ to_block = NoBlock THEN tx_block ELSE to_block
        to2 == IF from1 # NoBlock /\ to1 = NoBlock THEN from1 ELSE to1
        from2 == IF from1 # NoBlock THEN from1
                 ELSE IF last # NoBlock THEN last + 1
                 ELSE Max(0, chainHead - HeadLookback)
        to3 == IF to2 = NoBlock THEN chainHead ELSE to2
    IN  [ok |-> from2 <= to3, from_block |-> from2, to_block |-> to3]

(***************************************************************************)
(* The indexing process: demo.main resolves the range and calls            *)
(* run_indexer; an exception ends the process, the next call starts from   *)
(* the store as it was left.                                               *)
(***************************************************************************)
IdleRun ==
    [from_block |-> NoBlock, to_block |-> NoBlock, event_slug |-> "",
     cursor |-> NoBlock, all_logs |-> <<>>, idx |-> 0,
     market_discovery_attempted |-> FALSE, to_insert |-> <<>>,
     timestamp_cache |-> {}, inserted |-> 0,
     passes |-> 0, sync0 |-> NoBlock, trades0 |-> {},
     repeat |-> FALSE, stable |-> FALSE]

NoPrev == [from_block |-> NoBlock, to_block |-> NoBlock, event_slug |-> ""]

RunArgs(r) ==
    [from_block |-> r.from_block, to_block |-> r.to_block, event_slug |-> r.event_slug]

SampleLimit == 5

\* the summary dict of a call that returns; sample_trades is the length of the
\* list, repeat records that the call repeated the completed call before it
Summary(r) ==
    [status |-> "ok", from_block |-> r.from_block, to_block |-> r.to_block,
     inserted_trades |-> r.inserted,
     sample_trades |-> Min(SampleLimit, Len(r.to_insert)),
     repeat |-> r.repeat]

\* the kind of the exception of a call that raises
Raised(status) ==
    [status |-> status, from_block |-> NoBlock, to_block |-> NoBlock,
     inserted_trades |-> 0, sample_trades |-> 0, repeat |-> FALSE]

\* the call ends: the locals are gone, the caller holds the result
Finish(result) ==
    /\ pc' = "idle"
    /\ run' = IdleRun
    /\ lastResult' = result

\* what determine_block_range yields over the command lines of demo.main:
\* --from-block, --to-block and the block of --tx-hash, each absent or a mined block
ResolvedRanges(last, chainHead) ==
    {determine_block_range(from_block, to_block, tx_block, last, chainHead) :
        from_block \in {NoBlock} \cup 0..chainHead,
        to_block \in {NoBlock} \cup 0..chainHead,
        tx_block \in {NoBlock} \cup 0..chainHead}

EnterRun(args) ==
    /\ pc' = "discover"
    /\ run' = [IdleRun EXCEPT
                  !.from_block = args.from_block,
                  !.to_block = args.to_block,
                  !.event_slug = args.event_slug,
                  !.sync0 = get_sync_state(sync_state, "trade_sync"),
                  !.trades0 = trades,
                  !.repeat = (prevRun = args),
                  !.stable = TRUE]
    /\ lastResult' = Raised("running")

\* demo.main: determine_block_range, then run_indexer is entered
StartRun ==
    /\ pc = "idle"
    /\ nruns < MaxRuns
    /\ \E range \in ResolvedRanges(get_sync_state(sync_state, "trade_sync"), head),
          event_slug \in {""} \cup EventSlugs :
          IF ~range.ok THEN Finish(Raised("InvalidRange"))
          ELSE EnterRun([from_block |-> range.from_block,
                         to_block |-> range.to_block,
                         event_slug |-> event_slug])
    /\ nruns' = nruns + 1
    /\ prevRun' = NoPrev
    /\ UNCHANGED <<storeVars, head, gammaVer, scanned>>

\* d: what the discovery pass of line 140 did; addresses: whether the exchange
\* addresses are configured
Discovered(d, addresses) ==
    /\ events' = d.events
    /\ markets' = d.markets
    /\ IF ~d.ok THEN Finish(Raised("MetadataError"))
       ELSE IF ~addresses THEN Finish(Raised("NoAddresses"))
       ELSE /\ pc' = "fetch"
            /\ run' = [run EXCEPT !.passes = @ + d.passes, !.cursor = run.from_block]
            /\ UNCHANGED lastResult

\* run_indexer lines 140-149: the discovery pass, then the address check
Discover ==
    /\ pc = "discover"
    /\ \E up \in BOOLEAN, addresses \in BOOLEAN :
          /\ (run.event_slug = "" => up)
          /\ Discovered(discover_markets(events, markets, run.event_slug, up, gammaVer),
                        addresses)
    /\ UNCHANGED <<trades, sync_state, head, gammaVer, prevRun, scanned, nruns>>

ChunkSize == Max(1, ChunkSizeSetting)

ChunkEndExclusive(cursor, chunk_size, to_block) == Min(cursor + chunk_size, to_block)

\* _collect_logs line 108
ChunkEndFor(cursor, chunk_size, to_block) == Min(cursor + chunk_size - 1, to_block)

ChunkEnd == ChunkEndFor(run.cursor, ChunkSize, run.to_block)

\* one turn of the loop of _collect_logs whose query answers
FetchChunk ==
    /\ pc = "fetch"
    /\ run' = [run EXCEPT !.all_logs = @ \o GetLogs(run.cursor, ChunkEnd, head),
                          !.cursor = ChunkEnd + 1,
                          !.idx = 1]
    /\ pc' = IF ChunkEnd + 1 <= run.to_block THEN "fetch"
             ELSE IF Len(run'.all_logs) > 0 THEN "process" ELSE "insert"
    /\ UNCHANGED <<storeVars, head, gammaVer, lastResult, prevRun, scanned, nruns>>

FetchChunkFailCheckpoint ==
    /\ pc = "fetch"
    /\ Finish(Raised("LogFetchFailed"))
    /\ sync_state' = IF run.cursor > run.from_block
                     THEN update_sync_state(sync_state, "trade_sync", run.cursor - 1)
                     ELSE sync_state
    /\ UNCHANGED <<events, markets, trades, head, gammaVer, prevRun, scanned, nruns>>

\* one turn of the loop of _collect_logs whose query raises
FetchChunkFail ==
    /\ pc = "fetch"
    /\ Finish(Raised("LogFetchFailed"))
    /\ UNCHANGED <<storeVars, head, gammaVer, prevRun, scanned, nruns>>

\* _ensure_market_cached lines 77-81: the lookup missed and a pass may still run
NeedsDiscovery(cached, event_slug, market_discovery_attempted) ==
    cached = {} /\ event_slug # "" /\ ~market_discovery_attempted

ClassifyOutcomeYesOnly(token_id, market) ==
    IF token_id = _int_token(market.yes_token_id) THEN "YES" ELSE "UNKNOWN"

\* run_indexer lines 181-185
ClassifyOutcome(token_id, market) ==
    IF token_id = _int_token(market.yes_token_id) THEN "YES"
    ELSE IF token_id = _int_token(market.no_token_id) THEN "NO"
    ELSE "UNKNOWN"

\* run_indexer lines 187-191: the decoded dict as it enters to_insert
BatchItem(decoded, market, outcome) ==
    [market_id |-> market.id, tx_hash |-> decoded.tx_hash,
     log_index |-> decoded.log_index, block_number |-> decoded.block_number,
     side |-> decoded.side, outcome |-> outcome, token_id |-> decoded.token_id]

\* where the loop of run_indexer goes after the log at run.idx
NextPc == IF run.idx < Len(run.all_logs) THEN "process" ELSE "insert"

\* the locals after _ensure_market_cached returned
AfterLookup(discovered, passes) ==
    [run EXCEPT !.passes = @ + passes,
                !.market_discovery_attempted = @ \/ discovered,
                !.idx = @ + 1]

\* lines 179-191: the block timestamp (one RPC per block not in the cache), then
\* the append
AppendTrade(decoded, token_id, market, r, rpc_ok) ==
    IF decoded.block_number \notin run.timestamp_cache /\ ~rpc_ok
    THEN Finish(Raised("RpcError"))
    ELSE /\ decoded.block_number \in run.timestamp_cache => rpc_ok
         /\ pc' = NextPc
         /\ run' = [r EXCEPT
                       !.to_insert = Append(@, BatchItem(decoded, market,
                                               ClassifyOutcome(token_id, market))),
                       !.timestamp_cache = @ \cup {decoded.block_number}]
         /\ UNCHANGED lastResult

\* lines 176-177: a token no market holds is dropped
Resolved(decoded, token_id, d, found, r) ==
    /\ events' = d.events
    /\ markets' = d.markets
    /\ IF ~d.ok THEN Finish(Raised("MetadataError"))
       ELSE IF found = {}
       THEN /\ pc' = NextPc
            /\ run' = r
            /\ UNCHANGED lastResult
       ELSE \E market \in found, rpc_ok \in BOOLEAN :
               AppendTrade(decoded, token_id, market, r, rpc_ok)

\* _ensure_market_cached: d is the pass it ran, or NoDiscovery
Looked(decoded, token_id, discover, d) ==
    Resolved(decoded, token_id, d, fetch_market_by_token_id(d.markets, token_id),
             AfterLookup(discover /\ d.ok, d.passes))

EnsureMarketCached(decoded, token_id, discover, up) ==
    /\ discover \/ up
    /\ Looked(decoded, token_id, discover,
              IF discover
              THEN discover_markets(events, markets, run.event_slug, up, gammaVer)
              ELSE NoDiscovery(events, markets))

\* lines 165-177 on a decoded log
Decoded(decoded, token_id) ==
    IF token_id = NoneTok
    THEN /\ pc' = NextPc
         /\ run' = [run EXCEPT !.idx = @ + 1]
         /\ UNCHANGED <<events, markets, lastResult>>
    ELSE \E up \in BOOLEAN :
            EnsureMarketCached(decoded, token_id,
                NeedsDiscovery(fetch_market_by_token_id(markets, token_id),
                               run.event_slug, run.market_discovery_attempted),
                up)

\* line 164: the ValueError of the decoder leaves run_indexer
DecodeStep(decoded) ==
    IF decoded.err
    THEN /\ Finish(Raised("MalformedLog"))
         /\ UNCHANGED <<events, markets>>
    ELSE Decoded(decoded, _int_token(decoded.token_id))

\* one turn of the loop of run_indexer lines 163-191
ProcessLog ==
    /\ pc = "process"
    /\ DecodeStep(decode_order_filled_log(run.all_logs[run.idx]))
    /\ UNCHANGED <<trades, sync_state, head, gammaVer, prevRun, scanned, nruns>>

Inserted(res, db_ok) ==
    IF ~db_ok \/ ~res.ok
    THEN /\ Finish(Raised("InsertFailed"))
         /\ UNCHANGED <<trades, scanned>>
    ELSE /\ trades' = res.rows
         /\ run' = [run EXCEPT !.inserted = res.ret]
         /\ scanned' = scanned \cup (run.from_block..run.to_block)
         /\ pc' = "cursor"
         /\ UNCHANGED lastResult

\* run_indexer line 193: insert_trades and its commit
Insert ==
    /\ pc = "insert"
    /\ \E db_ok \in BOOLEAN : Inserted(insert_trades(trades, run.to_insert), db_ok)
    /\ UNCHANGED <<events, markets, sync_state, head, gammaVer, prevRun, nruns>>

UpdateCursorFromBlock ==
    /\ pc = "cursor"
    /\ sync_state' = update_sync_state(sync_state, "trade_sync", run.from_block)
    /\ Finish(Summary(run))
    /\ prevRun' = IF run.stable THEN RunArgs(run) ELSE NoPrev
    /\ UNCHANGED <<events, markets, trades, head, gammaVer, scanned, nruns>>

\* run_indexer lines 194-222: the cursor write, then the summary is returned
UpdateCursor ==
    /\ pc = "cursor"
    /\ sync_state' = update_sync_state(sync_state, "trade_sync", run.to_block)
    /\ Finish(Summary(run))
    /\ prevRun' = IF run.stable THEN RunArgs(run) ELSE NoPrev
    /\ UNCHANGED <<events, markets, trades, head, gammaVer, scanned, nruns>>

\* the process dies between two steps of a call
Crash ==
    /\ pc \in {"discover", "fetch", "process", "insert", "cursor"}
    /\ Finish(Raised("Crashed"))
    /\ UNCHANGED <<storeVars, head, gammaVer, prevRun, scanned, nruns>>

\* the environment changed: what a call in progress or a completed call saw is stale
Disturbed ==
    /\ run' = IF pc = "idle" THEN run ELSE [run EXCEPT !.repeat = FALSE, !.stable = FALSE]
    /\ prevRun' = NoPrev

\* a block is mined.  A call reads the head only to resolve its range and its
\* range names mined blocks, so the step is taken between calls.
NewBlock ==
    /\ pc = "idle"
    /\ head < MaxBlock
    /\ head' = head + 1
    /\ UNCHANGED <<storeVars, gammaVer, pc, run, lastResult, prevRun, scanned, nruns>>

\* the metadata service starts to serve more markets of the event
GammaCatalogueGrows ==
    /\ gammaVer = 0
    /\ gammaVer' = 1
    /\ Disturbed
    /\ UNCHANGED <<storeVars, head, pc, lastResult, scanned, nruns>>

Init ==
    /\ events = <<>>
    /\ markets = <<>>
    /\ trades = {}
    /\ sync_state = [k \in SyncKeys |-> NoBlock]
    /\ head = MaxBlock - 1
    /\ gammaVer = 0
    /\ pc = "idle"
    /\ run = IdleRun
    /\ lastResult = Raised("none")
    /\ prevRun = NoPrev
    /\ scanned = {}
    /\ nruns = 0

Next ==
    \/ StartRun
    \/ Discover
    \/ FetchChunk
    \/ FetchChunkFail
    \/ ProcessLog
    \/ Insert
    \/ UpdateCursor
    \/ Crash
    \/ NewBlock
    \/ GammaCatalogueGrows

Spec == Init /\ [][Next]_vars

(***************************************************************************)
(* The store on its own: a caller of db/store.py hands insert_trades       *)
(* batches of its choice.  run.to_insert, run.trades0 and run.repeat       *)
(* record the batch, the table before the call and whether the batch is    *)
(* the batch of the call before; lastResult records what the call returned.*)
(***************************************************************************)
TradeItem(tx_hash, log_index, side, token_id) ==
    [market_id |-> 1, tx_hash |-> tx_hash, log_index |-> log_index,
     block_number |-> tx_hash, side |-> side, outcome |-> "YES",
     token_id |-> token_id]

\* two items of one key that differ, keys that share the transaction or the log
\* index, and an item whose token id does not parse
TradeItems ==
    {TradeItem(1, 0, "BUY", <<"5">>), TradeItem(1, 0, "SELL", <<"5">>),
     TradeItem(1, 1, "BUY", <<"0", "x", "5">>), TradeItem(2, 0, "BUY", <<"5">>),
     TradeItem(2, 1, "BUY", <<"0", "x">>)}

Batches == UNION {[1..n -> TradeItems] : n \in 0..MaxBatch}

Returned(res) ==
    IF res.ok THEN [Raised("ok") EXCEPT !.inserted_trades = res.ret]
    ELSE Raised("ValueError")

InsertTradesReturned(batch, res) ==
    /\ trades' = res.rows
    /\ run' = [IdleRun EXCEPT
                  !.to_insert = batch,
                  !.trades0 = trades,
                  !.repeat = (lastResult.status = "ok" /\ run.to_insert = batch)]
    /\ lastResult' = Returned(res)

InsertTradesCall ==
    /\ pc = "idle"
    /\ \E batch \in Batches : InsertTradesReturned(batch, insert_trades(trades, batch))
    /\ UNCHANGED <<events, markets, sync_state, head, gammaVer, pc, prevRun,
                   scanned, nruns>>

StoreNext == InsertTradesCall

StoreSpec == Init /\ [][StoreNext]_vars

(***************************************************************************)
(* The catalogue tables on their own: a caller of db/store.py hands        *)
(* upsert_event and upsert_market payloads of its choice.  lastResult      *)
(* records the call: the operation, its payload, how it ended and the id   *)
(* it returned.                                                            *)
(***************************************************************************)
\* the dicts normalize_event_payload returns: event_id is "" when the service's
\* object has no id
EventPayloads ==
    {[event_id |-> event_id, slug |-> slug, title |-> title] :
        event_id \in {"", "ev1", "ev2"}, slug \in {"e1", "e2"}, title \in {"t0", "t1"}}

\* the dicts normalize_market_payload returns: the token ids in the forms the
\* service serves them, or None
MarketPayloads ==
    {[event_id |-> 1, slug |-> slug, condition_id |-> "c1",
      yes_token_id |-> yes, no_token_id |-> no] :
        slug \in {"m1", "m2"},
        yes \in {<<"5">>, <<"0", "x", "5">>, <<"7">>},
        no \in {<<"6">>, NoneTok}}

CallReturned(op, payload, res, error) ==
    [status |-> IF res.ok THEN "ok" ELSE error, op |-> op, payload |-> payload,
     id |-> res.id]

UpsertEventReturned(payload, res) ==
    /\ events' = res.rows
    /\ lastResult' = CallReturned("upsert_event", payload, res, "IntegrityError")

UpsertEventCall ==
    /\ pc = "idle"
    /\ \E payload \in EventPayloads :
          UpsertEventReturned(payload, upsert_event(events, payload))
    /\ UNCHANGED <<markets, trades, sync_state, head, gammaVer, pc, run, prevRun,
                   scanned, nruns>>

UpsertMarketReturned(payload, res) ==
    /\ markets' = res.rows
    /\ lastResult' = CallReturned("upsert_market", payload, res, "ValueError")

UpsertMarketCall ==
    /\ pc = "idle"
    /\ \E payload \in MarketPayloads :
          UpsertMarketReturned(payload, upsert_market(markets, payload))
    /\ UNCHANGED <<events, trades, sync_state, head, gammaVer, pc, run, prevRun,
                   scanned, nruns>>

CatalogueNext ==
    \/ UpsertEventCall
    \/ UpsertMarketCall

CatalogueSpec == Init /\ [][CatalogueNext]_vars

(***************************************************************************)
(* The cursor table and the range resolver on their own: a caller writes   *)
(* and reads sync_state keys and resolves ranges from any command line.    *)
(* lastResult records the call and what it returned; its field written     *)
(* keeps, per key, the block of the latest update_sync_state call as a     *)
(* one-element sequence, or the empty sequence when there was none.        *)
(***************************************************************************)
NoCall == [op |-> "none", status |-> "ok", written |-> [k \in SyncKeys |-> <<>>]]

SyncInit ==
    /\ events = <<>>
    /\ markets = <<>>
    /\ trades = {}
    /\ sync_state = [k \in SyncKeys |-> NoBlock]
    /\ head = MaxBlock - 1
    /\ gammaVer = 0
    /\ pc = "idle"
    /\ run = IdleRun
    /\ lastResult = NoCall
    /\ prevRun = NoPrev
    /\ scanned = {}
    /\ nruns = 0

UpdateSyncStateCall ==
    /\ pc = "idle"
    /\ \E key \in SyncKeys, last_block \in 0..MaxBlock :
          /\ sync_state' = update_sync_state(sync_state, key, last_block)
          /\ lastResult' = [op |-> "update_sync_state", status |-> "ok",
                            key |-> key, last_block |-> last_block,
                            written |-> [lastResult.written EXCEPT
                                            ![key] = <<last_block>>]]
    /\ UNCHANGED <<events, markets, trades, head, gammaVer, pc, run, prevRun,
                   scanned, nruns>>

GetSyncStateCall ==
    /\ pc = "idle"
    /\ \E key \in SyncKeys :
          lastResult' = [op |-> "get_sync_state", status |-> "ok", key |-> key,
                         ret |-> get_sync_state(sync_state, key),
                         written |-> lastResult.written]
    /\ UNCHANGED <<storeVars, head, gammaVer, pc, run, prevRun, scanned, nruns>>

\* last, chainHead: the cursor and the head the call read
RangeReturned(from_block, to_block, tx_block, last, chainHead, range) ==
    lastResult' = [op |-> "determine_block_range",
                   status |-> IF range.ok THEN "ok" ELSE "InvalidRange",
                   from_arg |-> from_block, to_arg |-> to_block,
                   tx_block |-> tx_block, last |-> last, chainHead |-> chainHead,
                   from_block |-> range.from_block, to_block |-> range.to_block,
                   written |-> lastResult.written]

\* the arguments: each absent or a block number, mined or not
DetermineBlockRangeCall ==
    /\ pc = "idle"
    /\ \E from_block \in {NoBlock} \cup 0..MaxBlock,
          to_block \in {NoBlock} \cup 0..MaxBlock,
          tx_block \in {NoBlock} \cup 0..head :
          RangeReturned(from_block, to_block, tx_block,
              get_sync_state(sync_state, "trade_sync"), head,
              determine_block_range(from_block, to_block, tx_block,
                  get_sync_state(sync_state, "trade_sync"), head))
    /\ UNCHANGED <<storeVars, head, gammaVer, pc, run, prevRun, scanned, nruns>>

SyncNext ==
    \/ UpdateSyncStateCall
    \/ GetSyncStateCall
    \/ DetermineBlockRangeCall
    \/ NewBlock

SyncSpec == SyncInit /\ [][SyncNext]_vars

(***************************************************************************)
(* normalize_token_id on its own: a caller hands it any string of up to    *)
(* MaxTokenLen characters over whitespace, the two quotes, digits and the  *)
(* hex prefix, or None.                                                    *)
(***************************************************************************)
TokenChars == {" ", "\"", "'", "0", "5", "x"}

TokenStrings == UNION {[1..n -> TokenChars] : n \in 0..MaxTokenLen}

NormalizeReturned(token_id, ret) ==
    lastResult' = [op |-> "normalize_token_id",
                   status |-> IF ret = ValueErrorTok THEN "ValueError" ELSE "ok",
                   token_id |-> token_id, ret |-> ret,
                   written |-> lastResult.written]

NormalizeTokenIdCall ==
    /\ pc = "idle"
    /\ \E token_id \in TokenStrings \cup {NoneTok} :
          NormalizeReturned(token_id, normalize_token_id(token_id))
    /\ UNCHANGED <<storeVars, head, gammaVer, pc, run, prevRun, scanned, nruns>>

TokenNext == NormalizeTokenIdCall

TokenSpec == SyncInit /\ [][TokenNext]_vars

(***************************************************************************)
(* decode_order_filled_log on its own: a caller hands it logs with any     *)
(* asset ids and amounts of a small set, well-formed or not (two topics, a *)
(* word missing, a ragged last word).                                      *)
(***************************************************************************)
AssetIds == {0, 7, 555}

Amounts == {0, 1, 3, 1000000, 2000000}

DecoderLogs ==
    {[topics |-> topics,
      data |-> [words |-> IF short THEN <<1, maker_asset_id, taker_asset_id,
                                          maker_amount, taker_amount>>
                          ELSE <<1, maker_asset_id, taker_asset_id,
                                 maker_amount, taker_amount, 0>>,
                extra |-> extra],
      transactionHash |-> 1, logIndex |-> 0, blockNumber |-> 1] :
        topics \in {MinTopics - 1, MinTopics}, short \in BOOLEAN, extra \in {0, 1},
        maker_asset_id \in AssetIds, taker_asset_id \in AssetIds,
        maker_amount \in Amounts, taker_amount \in Amounts}

DecodeReturned(log, ret) ==
    lastResult' = [op |-> "decode_order_filled_log",
                   status |-> IF ret.err THEN "ValueError" ELSE "ok",
                   log |-> log, ret |-> ret]

\* one call: the function reads nothing but its argument
DecodeCall ==
    /\ pc = "idle"
    /\ lastResult.op = "none"
    /\ \E log \in DecoderLogs : DecodeReturned(log, decode_order_filled_log(log))
    /\ UNCHANGED <<storeVars, head, gammaVer, pc, run, prevRun, scanned, nruns>>

DecodeNext == DecodeCall

DecodeSpec == SyncInit /\ [][DecodeNext]_vars

(***************************************************************************)
(* insert_trades statement by statement, next to a reader that holds its   *)
(* own connection (api/server.py opens one per request).  The writer's     *)
(* connection is in sqlite3's default isolation level: the first INSERT    *)
(* opens a transaction, which conn.commit() ends.  trades is the committed *)
(* table, the one another connection reads; run.pending is the table as    *)
(* the writer's transaction sees it.  lastResult records what the reader   *)
(* selected and the call that was in progress.                             *)
(***************************************************************************)
WriterIdle == [to_insert |-> <<>>, idx |-> 0, trades0 |-> {}, pending |-> {}]

ReaderInit ==
    /\ events = <<>>
    /\ markets = <<>>
    /\ trades = {}
    /\ sync_state = [k \in SyncKeys |-> NoBlock]
    /\ head = MaxBlock - 1
    /\ gammaVer = 0
    /\ pc = "idle"
    /\ run = WriterIdle
    /\ lastResult = NoCall
    /\ prevRun = NoPrev
    /\ scanned = {}
    /\ nruns = 0

\* the call starts: a batch that is empty returns and one whose parameter
\* tuples cannot be built raises, before any statement
InsertTradesBegin ==
    /\ pc = "idle"
    /\ \E batch \in Batches :
          /\ Len(batch) > 0
          /\ \A i \in 1..Len(batch) :
                normalize_token_id(batch[i].token_id) # ValueErrorTok
          /\ run' = [to_insert |-> batch, idx |-> 1, trades0 |-> trades,
                     pending |-> trades]
    /\ pc' = "executemany"
    /\ UNCHANGED <<storeVars, head, gammaVer, lastResult, prevRun, scanned, nruns>>

StatementApplied(rows, t) ==
    IF TradeKeyTaken(rows, t) THEN rows ELSE rows \cup {TradeRow(t)}

\* one INSERT OR IGNORE of the executemany, committing at once
ExecuteStatementAutocommit ==
    /\ pc = "executemany"
    /\ run' = [run EXCEPT !.idx = @ + 1,
                          !.pending = StatementApplied(@, run.to_insert[run.idx])]
    /\ trades' = StatementApplied(run.pending, run.to_insert[run.idx])
    /\ pc' = IF run.idx = Len(run.to_insert) THEN "commit" ELSE "executemany"
    /\ UNCHANGED <<events, markets, sync_state, head, gammaVer, lastResult,
                   prevRun, scanned, nruns>>

\* one INSERT OR IGNORE of the executemany, inside the open transaction
ExecuteStatement ==
    /\ pc = "executemany"
    /\ run' = [run EXCEPT !.idx = @ + 1,
                          !.pending = StatementApplied(@, run.to_insert[run.idx])]
    /\ pc' = IF run.idx = Len(run.to_insert) THEN "commit" ELSE "executemany"
    /\ UNCHANGED <<storeVars, head, gammaVer, lastResult, prevRun, scanned, nruns>>

\* conn.commit(): the transaction's rows become the table
CommitInsert ==
    /\ pc = "commit"
    /\ trades' = run.pending
    /\ pc' = "idle"
    /\ run' = WriterIdle
    /\ UNCHANGED <<events, markets, sync_state, head, gammaVer, lastResult,
                   prevRun, scanned, nruns>>

\* what a SELECT on the reader's connection returns now, with the table before
\* the call in progress and the table that call leaves
Selected(rows, before, batch, pending) ==
    [op |-> "select", status |-> "ok", rows |-> rows, before |-> before,
     after |-> insert_trades(before, batch).rows, pending |-> pending]

ReaderSelect ==
    /\ lastResult' = IF pc = "idle" THEN Selected(trades, trades, <<>>, trades)
                     ELSE Selected(trades, run.trades0, run.to_insert, run.pending)
    /\ UNCHANGED <<storeVars, head, gammaVer, pc, run, prevRun, scanned, nruns>>

ReaderNext ==
    \/ InsertTradesBegin
    \/ ExecuteStatement
    \/ CommitInsert
    \/ ReaderSelect

ReaderSpec == ReaderInit /\ [][ReaderNext]_vars

(***************************************************************************)
(* The trade queries of db/store.py on their own: a table of stored rows   *)
(* and one call of fetch_trades_for_market or fetch_trades_for_token with  *)
(* arguments of the caller's choice (the API hands limit >= 1 and          *)
(* offset >= 0).  lastResult records the call and the list it returned.    *)
(***************************************************************************)
StoredTrade(market_id, tx_hash, log_index, token_id) ==
    TradeRow([TradeItem(tx_hash, log_index, "BUY", token_id)
                 EXCEPT !.market_id = market_id])

\* rows of two markets and three tokens over three blocks, no two of one key
StoredTrades ==
    {StoredTrade(1, 1, 0, <<"5">>), StoredTrade(1, 1, 1, <<"7">>),
     StoredTrade(1, 2, 0, <<"5">>), StoredTrade(2, 2, 1, <<"9">>),
     StoredTrade(1, 3, 0, <<"5">>)}

\* " AND block_number >= ? AND block_number <= ?" with 0 taken for no bound
_build_trade_where_truthy(row, from_block, to_block) ==
    /\ from_block > 0 => row.block_number >= from_block
    /\ to_block > 0 => row.block_number <= to_block

\* " AND block_number >= ? AND block_number <= ?", a clause per bound that is
\* not None
_build_trade_where(row, from_block, to_block) ==
    /\ from_block # NoBlock => row.block_number >= from_block
    /\ to_block # NoBlock => row.block_number <= to_block

\* a sorts before b under ORDER BY block_number DESC, log_index DESC
SortsBefore(a, b) ==
    \/ a.block_number > b.block_number
    \/ a.block_number = b.block_number /\ a.log_index > b.log_index

First(rows) == {a \in rows : \A b \in rows : ~SortsBefore(b, a)}

\* the orders ORDER BY may return the rows in: rows that compare equal come in
\* either order
RECURSIVE OrderBy(_)
OrderBy(rows) ==
    IF rows = {} THEN {<<>>}
    ELSE UNION {{<<a>> \o rest : rest \in OrderBy(rows \ {a})} : a \in First(rows)}

\* LIMIT ? OFFSET ?: a negative limit is no limit, a negative offset is 0
LimitOffset(ordered, limit, offset) ==
    SubSeq(ordered, Max(offset, 0) + 1,
           IF limit < 0 THEN Len(ordered)
           ELSE Min(Len(ordered), Max(offset, 0) + limit))

fetch_trades_for_market(rows, market_id, limit, offset, from_block, to_block) ==
    {[ok |-> TRUE, rows |-> LimitOffset(ordered, limit, offset)] :
        ordered \in OrderBy({row \in rows :
                                /\ row.market_id = market_id
                                /\ _build_trade_where(row, from_block, to_block)})}

\* the stored token id is compared with the normalized one; None equals no
\* stored value
TokenRows(rows, normalized, from_block, to_block) ==
    {row \in rows : /\ normalized # NoneTok
                    /\ row.token_id = normalized
                    /\ _build_trade_where(row, from_block, to_block)}

fetch_trades_for_token(rows, token_id, limit, offset, from_block, to_block) ==
    IF normalize_token_id(token_id) = ValueErrorTok
    THEN {[ok |-> FALSE, rows |-> <<>>]}
    ELSE {[ok |-> TRUE, rows |-> LimitOffset(ordered, limit, offset)] :
             ordered \in OrderBy(TokenRows(rows, normalize_token_id(token_id),
                                           from_block, to_block))}

FetchInit ==
    /\ events = <<>>
    /\ markets = <<>>
    /\ trades \in SUBSET StoredTrades
    /\ sync_state = [k \in SyncKeys |-> NoBlock]
    /\ head = MaxBlock - 1
    /\ gammaVer = 0
    /\ pc = "idle"
    /\ run = IdleRun
    /\ lastResult = NoCall
    /\ prevRun = NoPrev
    /\ scanned = {}
    /\ nruns = 0

Limits == 0..(MaxBatch + 1)
Offsets == 0..MaxBatch
BlockBounds == {NoBlock} \cup 0..MaxBlock

FetchReturned(op, by, limit, offset, from_block, to_block, ret) ==
    lastResult' = [op |-> op,
                   status |-> IF ret.ok THEN "ok" ELSE "ValueError",
                   by |-> by, limit |-> limit, offset |-> offset,
                   from_block |-> from_block, to_block |-> to_block,
                   ret |-> ret.rows]

FetchTradesForMarketCall ==
    /\ pc = "idle"
    /\ lastResult.op = "none"
    /\ \E market_id \in {1, 2}, limit \in Limits, offset \in Offsets,
          from_block \in BlockBounds, to_block \in BlockBounds :
          \E ret \in fetch_trades_for_market(trades, market_id, limit, offset,
                                             from_block, to_block) :
             FetchReturned("fetch_trades_for_market", market_id, limit, offset,
                           from_block, to_block, ret)
    /\ UNCHANGED <<storeVars, head, gammaVer, pc, run, prevRun, scanned, nruns>>

FetchTradesForTokenCall ==
    /\ pc = "idle"
    /\ lastResult.op = "none"
    /\ \E token_id \in {<<"5">>, <<"0", "x", "5">>, <<"9">>, <<"0", "x">>, <<" ">>},
          limit \in Limits, offset \in Offsets,
          from_block \in BlockBounds, to_block \in BlockBounds :
          \E ret \in fetch_trades_for_token(trades, token_id, limit, offset,
                                            from_block, to_block) :
             FetchReturned("fetch_trades_for_token", token_id, limit, offset,
                           from_block, to_block, ret)
    /\ UNCHANGED <<storeVars, head, gammaVer, pc, run, prevRun, scanned, nruns>>

FetchNext == FetchTradesForMarketCall \/ FetchTradesForTokenCall

FetchSpec == FetchInit /\ [][FetchNext]_vars

(***************************************************************************)
(* Resuming after a crash: incremental runs (no --from-block, --to-block   *)
(* or --tx-hash) on a chain whose head is past the look-back window, the   *)
(* process dying between insert_trades and update_sync_state.              *)
(***************************************************************************)
ResumeInit ==
    /\ events = <<>>
    /\ markets = <<>>
    /\ trades = {}
    /\ head = HeadLookback + MaxBlock + 1
    /\ \E last \in {NoBlock} \cup (head - MaxBlock)..(head - 1) :
          sync_state = [k \in SyncKeys |-> IF k = "trade_sync" THEN last ELSE NoBlock]
    /\ gammaVer = 0
    /\ pc = "idle"
    /\ run = IdleRun
    /\ lastResult = Raised("none")
    /\ prevRun = NoPrev
    /\ scanned = {}
    /\ nruns = 0

\* range: what determine_block_range resolved for the bare command line
IncrementalRunEntered(range, event_slug) ==
    IF ~range.ok THEN Finish(Raised("InvalidRange"))
    ELSE EnterRun([from_block |-> range.from_block, to_block |-> range.to_block,
                   event_slug |-> event_slug])

StartIncrementalRunAtHead ==
    /\ pc = "idle"
    /\ nruns < MaxRuns
    /\ \E event_slug \in {""} \cup EventSlugs :
          IncrementalRunEntered(
              determine_block_range(NoBlock, NoBlock, NoBlock, NoBlock, head),
              event_slug)
    /\ nruns' = nruns + 1
    /\ UNCHANGED <<storeVars, head, gammaVer, prevRun, scanned>>

\* demo.main without explicit bounds: the range comes from the cursor or the head
StartIncrementalRun ==
    /\ pc = "idle"
    /\ nruns < MaxRuns
    /\ \E event_slug \in {""} \cup EventSlugs :
          IncrementalRunEntered(
              determine_block_range(NoBlock, NoBlock, NoBlock,
                                    get_sync_state(sync_state, "trade_sync"), head),
              event_slug)
    /\ nruns' = nruns + 1
    /\ UNCHANGED <<storeVars, head, gammaVer, prevRun, scanned>>

\* the crashed run as the next run finds it: its range and the committed table
Interrupted(r, rows) ==
    [from_block |-> r.from_block, to_block |-> r.to_block,
     event_slug |-> r.event_slug, sync0 |-> r.sync0, stored |-> rows]

\* the process dies after line 193 committed and before line 194 ran
CrashBeforeCursor ==
    /\ pc = "cursor"
    /\ Finish(Raised("Crashed"))
    /\ prevRun' = Interrupted(run, trades)
    /\ UNCHANGED <<storeVars, head, gammaVer, scanned, nruns>>

\* a block is mined between two runs
BlockMined ==
    /\ pc = "idle"
    /\ head < HeadLookback + 2 * MaxBlock
    /\ head' = head + 1
    /\ UNCHANGED <<storeVars, gammaVer, pc, run, lastResult, prevRun, scanned, nruns>>

\* a completed run closes the episode of the crash before it
UpdateCursorResumed ==
    /\ pc = "cursor"
    /\ sync_state' = update_sync_state(sync_state, "trade_sync", run.to_block)
    /\ Finish(Summary(run))
    /\ prevRun' = NoPrev
    /\ UNCHANGED <<events, markets, trades, head, gammaVer, scanned, nruns>>

ResumeNext ==
    \/ StartIncrementalRun
    \/ Discover
    \/ FetchChunk
    \/ ProcessLog
    \/ Insert
    \/ UpdateCursorResumed
    \/ CrashBeforeCursor
    \/ BlockMined

ResumeSpec == ResumeInit /\ [][ResumeNext]_vars

(***************************************************************************)
(* _collect_logs on its own: one call, for each range of mined blocks and  *)
(* each chunk size run_indexer can pass, one loop turn per step.           *)
(***************************************************************************)
CollectHead == 2 * MaxBlock

CollectInit ==
    /\ events = <<>>
    /\ markets = <<>>
    /\ trades = {}
    /\ sync_state = [k \in SyncKeys |-> NoBlock]
    /\ head = CollectHead
    /\ gammaVer = 0
    /\ pc = "idle"
    /\ run = IdleRun
    /\ lastResult = NoCall
    /\ prevRun = NoPrev
    /\ scanned = {}
    /\ nruns = 0

\* the locals of _collect_logs; queries: the payloads sent so far with their answers
CollectLocals(from_block, to_block, chunk_size) ==
    [from_block |-> from_block, to_block |-> to_block, chunk_size |-> chunk_size,
     cursor |-> from_block, all_logs |-> <<>>, queries |-> <<>>]

\* lines 103-106: the call is entered
CollectLogsBegin ==
    /\ pc = "idle"
    /\ lastResult.op = "none"
    /\ \E from_block \in 0..head, to_block \in 0..head,
          chunk_size \in 1..(ChunkSizeSetting + 1) :
          /\ from_block <= to_block
          /\ run' = CollectLocals(from_block, to_block, chunk_size)
    /\ pc' = "collect"
    /\ UNCHANGED <<storeVars, head, gammaVer, lastResult, prevRun, scanned, nruns>>

Query(fromBlock, toBlock) ==
    [fromBlock |-> fromBlock, toBlock |-> toBlock,
     logs |-> GetLogs(fromBlock, toBlock, head)]

\* lines 107-117: one turn of the loop, the provider answering
Collected(r, end) ==
    [r EXCEPT !.queries = Append(@, Query(r.cursor, end)),
              !.all_logs = @ \o GetLogs(r.cursor, end, head),
              !.cursor = end + 1]

CollectChunk ==
    /\ pc = "collect"
    /\ run.cursor <= run.to_block
    /\ run' = Collected(run, ChunkEndFor(run.cursor, run.chunk_size, run.to_block))
    /\ UNCHANGED <<storeVars, head, gammaVer, pc, lastResult, prevRun, scanned, nruns>>

CollectEnded(r, status) ==
    [op |-> "_collect_logs", status |-> status, from_block |-> r.from_block,
     to_block |-> r.to_block, chunk_size |-> r.chunk_size,
     queries |-> r.queries, ret |-> r.all_logs]

\* line 115 raises: the call ends with the provider's error
CollectChunkRaises ==
    /\ pc = "collect"
    /\ run.cursor <= run.to_block
    /\ pc' = "idle"
    /\ run' = IdleRun
    /\ lastResult' = CollectEnded(run, "LogFetchFailed")
    /\ UNCHANGED <<storeVars, head, gammaVer, prevRun, scanned, nruns>>

\* lines 107 and 119: the loop condition fails, all_logs is returned
CollectReturn ==
    /\ pc = "collect"
    /\ run.cursor > run.to_block
    /\ pc' = "idle"
    /\ run' = IdleRun
    /\ lastResult' = CollectEnded(run, "ok")
    /\ UNCHANGED <<storeVars, head, gammaVer, prevRun, scanned, nruns>>

CollectNext ==
    \/ CollectLogsBegin
    \/ CollectChunk
    \/ CollectChunkRaises
    \/ CollectReturn

\* the interpreter keeps executing a call in progress
CollectSpec ==
    /\ CollectInit
    /\ [][CollectNext]_vars
    /\ WF_vars(CollectChunk \/ CollectChunkRaises \/ CollectReturn)

(***************************************************************************)
(* GammaClient._get_json on its own: one call, one request or sleep per    *)
(* step.  trace: the requests sent and the sleeps taken, in order.         *)
(***************************************************************************)
MaxRetries == 3

\* retry_base_delay, in units of half a second
BaseDelays == {0, 1, 3}

\* what makes a request fail: the transport, the HTTP status, the JSON decoder
RequestErrors == {"ConnectionError", "HTTPError", "JSONDecodeError"}

\* the error of a request, told apart by the attempt that raised it
ErrorOf(exc, attempt) == <<exc, attempt>>

\* last_err = None
NoError == ErrorOf("None", 0)

GetJsonLocals(max_retries, retry_base_delay) ==
    [max_retries |-> max_retries, retry_base_delay |-> retry_base_delay,
     attempt |-> 0, last_err |-> NoError, trace |-> <<>>]

\* lines 20-22: the call is entered
GetJsonBegin ==
    /\ pc = "idle"
    /\ lastResult.op = "none"
    /\ \E max_retries \in 0..MaxRetries, retry_base_delay \in BaseDelays :
          run' = GetJsonLocals(max_retries, retry_base_delay)
    /\ pc' = "request"
    /\ UNCHANGED <<storeVars, head, gammaVer, lastResult, prevRun, scanned, nruns>>

Requested(attempt, outcome) == [kind |-> "request", attempt |-> attempt, is |-> outcome]

Slept(attempt, seconds) == [kind |-> "sleep", attempt |-> attempt, is |-> seconds]

GetJsonEnded(r, trace, status, error) ==
    [op |-> "_get_json", status |-> status, error |-> error,
     max_retries |-> r.max_retries, retry_base_delay |-> r.retry_base_delay,
     trace |-> trace]

GetJsonEnds(result) ==
    /\ pc' = "idle"
    /\ run' = IdleRun
    /\ lastResult' = result

\* lines 25-27: the request answers with a JSON body, which is returned
GetJsonRequestSucceeds ==
    /\ pc = "request"
    /\ run.attempt < run.max_retries
    /\ GetJsonEnds(GetJsonEnded(run, Append(run.trace, Requested(run.attempt, "ok")),
                                "ok", NoError))
    /\ UNCHANGED <<storeVars, head, gammaVer, prevRun, scanned, nruns>>

RequestFailedNoBreak(r, exc) ==
    /\ pc' = "sleep"
    /\ run' = [r EXCEPT !.trace = Append(@, Requested(r.attempt, exc)),
                        !.last_err = ErrorOf(exc, r.attempt)]
    /\ UNCHANGED lastResult

\* lines 28-31 and 34-35: the handler; the last attempt breaks and its error is
\* raised
RequestFailed(r, exc) ==
    IF r.attempt + 1 = r.max_retries
    THEN GetJsonEnds(GetJsonEnded(r, Append(r.trace, Requested(r.attempt, exc)),
                                  "raised", ErrorOf(exc, r.attempt)))
    ELSE /\ pc' = "sleep"
         /\ run' = [r EXCEPT !.trace = Append(@, Requested(r.attempt, exc)),
                             !.last_err = ErrorOf(exc, r.attempt)]
         /\ UNCHANGED lastResult

GetJsonRequestFails ==
    /\ pc = "request"
    /\ run.attempt < run.max_retries
    /\ \E exc \in RequestErrors : RequestFailed(run, exc)
    /\ UNCHANGED <<storeVars, head, gammaVer, prevRun, scanned, nruns>>

\* lines 32-33: the back-off, then the next turn of the loop
GetJsonSleep ==
    /\ pc = "sleep"
    /\ run' = [run EXCEPT
                  !.trace = Append(@, Slept(run.attempt,
                                            run.retry_base_delay * 2 ^ run.attempt)),
                  !.attempt = @ + 1]
    /\ pc' = "request"
    /\ UNCHANGED <<storeVars, head, gammaVer, lastResult, prevRun, scanned, nruns>>

\* lines 23 and 34-36: the loop is over without a break
GetJsonLoopOver ==
    /\ pc = "request"
    /\ run.attempt >= run.max_retries
    /\ GetJsonEnds(GetJsonEnded(run, run.trace, "raised",
                                IF run.last_err # NoError THEN run.last_err
                                ELSE ErrorOf("RuntimeError", run.attempt)))
    /\ UNCHANGED <<storeVars, head, gammaVer, prevRun, scanned, nruns>>

GetJsonNext ==
    \/ GetJsonBegin
    \/ GetJsonRequestSucceeds
    \/ GetJsonRequestFails
    \/ GetJsonSleep
    \/ GetJsonLoopOver

GetJsonSpec == SyncInit /\ [][GetJsonNext]_vars

(***************************************************************************)
(* GammaClient.get_event_with_markets on its own: one call, over what the  *)
(* two endpoints answer.  A JSON value is a scalar, a list or an object;   *)
(* of an object the model keeps the fields the method reads ("data",       *)
(* "events") and whether it has any other.                                 *)
(***************************************************************************)
MaxItems == 2

EventObjects == {"evA", "evB"}

ItemLists == UNION {[1..n -> EventObjects] : n \in 0..MaxItems}

NoField == [present |-> FALSE, is_list |-> FALSE, items |-> <<>>]

ScalarField == [present |-> TRUE, is_list |-> FALSE, items |-> <<>>]

ListField(items) == [present |-> TRUE, is_list |-> TRUE, items |-> items]

Fields == {NoField, ScalarField} \cup {ListField(items) : items \in ItemLists}

JsonValue(type, items, data_field, events_field, extra) ==
    [type |-> type, items |-> items, data |-> data_field, events |-> events_field,
     extra |-> extra]

\* _get_json raised
RaisedJson == JsonValue("raise", <<>>, NoField, NoField, FALSE)

ScalarJson == JsonValue("scalar", <<>>, NoField, NoField, FALSE)

ListJson(items) == JsonValue("list", items, NoField, NoField, FALSE)

DictJson(data_field, events_field, extra) ==
    JsonValue("dict", <<>>, data_field, events_field, extra)

Responses ==
    {RaisedJson, ScalarJson}
        \cup {ListJson(items) : items \in ItemLists}
        \cup {DictJson(data_field, events_field, extra) :
                 data_field \in Fields, events_field \in Fields, extra \in BOOLEAN}

\* isinstance(x, list) and x
IsNonEmptyList(field) == field.is_list /\ field.items # <<>>

EventReturned(status, searched, from, object) ==
    [status |-> status, searched |-> searched, from |-> from, object |-> object]

\* line 42: isinstance(data, dict)
AcceptsDirect(data) == data.type = "dict"

\* lines 48-56: the fallback endpoint answered with data
FromSearch(data) ==
    IF data.type = "raise" THEN EventReturned("raised", TRUE, "none", "none")
    ELSE IF data.type = "list" /\ data.items # <<>>
    THEN EventReturned("ok", TRUE, "list", data.items[1])
    ELSE IF data.type = "dict" /\ IsNonEmptyList(data.data)
    THEN EventReturned("ok", TRUE, "data", data.data.items[1])
    ELSE IF data.type = "dict" /\ IsNonEmptyList(data.events)
    THEN EventReturned("ok", TRUE, "events", data.events.items[1])
    ELSE EventReturned("ValueError", TRUE, "none", "none")

\* direct, search: what _get_json does for /events/{slug} and for /events?slug=
get_event_with_markets(direct, search) ==
    IF AcceptsDirect(direct) THEN EventReturned("ok", FALSE, "direct", "none")
    ELSE FromSearch(search)

GetEventReturned(direct, search, res) ==
    [op |-> "get_event_with_markets", status |-> res.status, direct |-> direct,
     search |-> search, searched |-> res.searched, from |-> res.from,
     object |-> res.object]

GetEventWithMarketsCall ==
    /\ pc = "idle"
    /\ lastResult.op = "none"
    /\ \E direct \in Responses, search \in Responses :
          lastResult' = GetEventReturned(direct, search,
                                         get_event_with_markets(direct, search))
    /\ UNCHANGED <<storeVars, head, gammaVer, pc, run, prevRun, scanned, nruns>>

EventNext == GetEventWithMarketsCall

EventSpec == SyncInit /\ [][EventNext]_vars

(***************************************************************************)
(* determine_block_range on chains shorter and longer than the look-back   *)
(* window: the head is any block up to MaxBlock past the window, the       *)
(* cursor absent or one of the first blocks.                               *)
(***************************************************************************)
RangeInit ==
    /\ events = <<>>
    /\ markets = <<>>
    /\ trades = {}
    /\ \E last \in {NoBlock} \cup 0..MaxBlock :
          sync_state = [k \in SyncKeys |-> IF k = "trade_sync" THEN last ELSE NoBlock]
    /\ head \in 0..(HeadLookback + MaxBlock)
    /\ gammaVer = 0
    /\ pc = "idle"
    /\ run = IdleRun
    /\ lastResult = NoCall
    /\ prevRun = NoPrev
    /\ scanned = {}
    /\ nruns = 0

\* one call per behaviour
FirstRangeCall ==
    /\ lastResult.op = "none"
    /\ DetermineBlockRangeCall

RangeNext == FirstRangeCall

RangeSpec == RangeInit /\ [][RangeNext]_vars

(***************************************************************************)
(* normalize_market_payload on its own: one call, over markets whose       *)
(* outcomes and clobTokenIds are lists of up to MaxItems items.            *)
(***************************************************************************)
OutcomeLabels == {"Yes", "NO", "Maybe"}

OutcomeLists == UNION {[1..n -> OutcomeLabels] : n \in 0..MaxItems}

ClobTokenLists == UNION {[1..n -> {<<"5">>, <<"6">>, <<"7">>}] : n \in 0..MaxItems}

ServedMarkets ==
    {[slug |-> slug, conditionId |-> "c1", outcomes |-> outcomes,
      clobTokenIds |-> clobTokenIds] :
        slug \in {"", "m1"}, outcomes \in OutcomeLists, clobTokenIds \in ClobTokenLists}

MarketNormalized(market, ret) ==
    [op |-> "normalize_market_payload",
     status |-> IF ret.skip THEN "None" ELSE IF ret.err THEN "ValueError" ELSE "ok",
     market |-> market,
     yes_token_id |-> IF ret.skip \/ ret.err THEN NoneTok ELSE ret.yes_token_id,
     no_token_id |-> IF ret.skip \/ ret.err THEN NoneTok ELSE ret.no_token_id]

NormalizeMarketPayloadCall ==
    /\ pc = "idle"
    /\ lastResult.op = "none"
    /\ \E market \in ServedMarkets :
          lastResult' = MarketNormalized(market, normalize_market_payload(market, 1))
    /\ UNCHANGED <<storeVars, head, gammaVer, pc, run, prevRun, scanned, nruns>>

MarketNext == NormalizeMarketPayloadCall

MarketSpec == SyncInit /\ [][MarketNext]_vars

(***************************************************************************)
(* Properties.                                                             *)
(***************************************************************************)
Cursor == get_sync_state(sync_state, "trade_sync")

MarketIds == {markets[i].id : i \in 1..Len(markets)}

\* C1: whatever batches insert_trades was called with, no two rows of trades
\* share their (tx_hash, log_index) pair.
C1_UniqueTradeKey ==
    \A a \in trades, b \in trades :
        (a.tx_hash = b.tx_hash /\ a.log_index = b.log_index) => a = b

\* C1 witness: a call whose batch held a key that was taken (fewer rows added
\* than items handed in) has returned, and the table holds several rows
C1_Witness ==
    /\ lastResult.status = "ok"
    /\ lastResult.inserted_trades < Len(run.to_insert)
    /\ Cardinality(trades) >= 2

\* C2: insert_trades returns the number of rows it added (rows after minus rows
\* before); a call with the batch of the call before returns 0 and leaves the
\* table as it was.
C2_ReturnsRowsAdded ==
    lastResult.status = "ok" =>
        /\ lastResult.inserted_trades = Cardinality(trades) - Cardinality(run.trades0)
        /\ run.repeat => (lastResult.inserted_trades = 0 /\ trades = run.trades0)

\* C2 witness: a non-empty batch was handed in a second time, the table holds rows
C2_Witness ==
    /\ lastResult.status = "ok"
    /\ run.repeat
    /\ Len(run.to_insert) > 0
    /\ trades # {}

\* C3: a run_indexer call that repeats the completed call before it (same range,
\* same event, chain and catalogue unchanged) reports inserted_trades = 0, leaves
\* trades as the first call left it and leaves the cursor at to_block.
C3_RepeatedRunInsertsNothing ==
    [][(pc = "cursor" /\ lastResult'.status = "ok" /\ run.repeat) =>
          /\ lastResult'.inserted_trades = 0
          /\ trades' = run.trades0
          /\ Cursor' = run.to_block
          /\ Cursor = run.to_block]_vars

\* C3 witness: a repeated call has returned; it had decoded trades to insert
C3_Witness ==
    /\ lastResult.status = "ok"
    /\ lastResult.repeat
    /\ lastResult.sample_trades > 0
    /\ lastResult.inserted_trades = 0
    /\ Cursor = lastResult.to_block
    /\ trades # {}

\* C4: a log that cannot be decoded is skipped: no run_indexer call ends with the
\* decoder's error.
C4_MalformedLogSkipped == lastResult.status # "MalformedLog"

\* C5: the trade_sync cursor never decreases.
C5_CursorMonotone == [][Cursor' >= Cursor]_vars

\* C6: when the cursor holds N, every block from the lowest scanned block to N is
\* inside the range of a run whose fetch and insert completed.
C6_NoGapBelowCursor ==
    (Cursor # NoBlock /\ scanned # {}) =>
        \A b \in SetMin(scanned)..Cursor : b \in scanned

\* C7: every trades row, and every item of the batch a run is building, names the
\* id of an existing markets row that holds the item's token; a token no market
\* holds puts nothing into the batch.
C7_TradesReferenceMarkets ==
    /\ \A t \in trades : t.market_id \in MarketIds
    /\ \A i \in 1..Len(run.to_insert) :
          /\ run.to_insert[i].market_id \in MarketIds
          /\ fetch_market_by_token_id(markets, run.to_insert[i].token_id) # {}

\* C7 witness: block 0 was scanned with its resolvable log stored and its log of
\* token 9, which no market holds, not stored
C7_Witness ==
    /\ 0 \in scanned
    /\ \E t \in trades : t.block_number = 0
    /\ \A t \in trades : t.token_id # <<"9">>

\* C8: when the provider query of a chunk fails, the call raises, trades is what
\* it was when the call started and so is the cursor.
C8_FetchFailureCommitsNothing ==
    [][(pc = "fetch" /\ lastResult'.status = "LogFetchFailed") =>
          /\ pc' = "idle"
          /\ trades' = run.trades0
          /\ Cursor' = run.sync0]_vars

\* C8 witness: a call failed in its log fetch over a store that holds trades and
\* a cursor
C8_Witness ==
    /\ lastResult.status = "LogFetchFailed"
    /\ trades # {}
    /\ Cursor # NoBlock

\* C9: within one run_indexer call the discovery pass runs at most once.
C9_DiscoveryAtMostOnce == run.passes <= 1

\* the markets of the tokens of the logs of the range are stored
RangeMarketsCached(r) ==
    \A i \in 1..Len(GetLogs(r.from_block, r.to_block, head)) :
        /\ ~decode_order_filled_log(GetLogs(r.from_block, r.to_block, head)[i]).err
        /\ fetch_market_by_token_id(markets,
               decode_order_filled_log(
                   GetLogs(r.from_block, r.to_block, head)[i]).token_id) # {}

\* C10: a metadata failure in the discovery step does not abort a run whose
\* range's tokens all have their markets stored.
C10_MetadataFailureKeepsRun ==
    [][(pc = "discover" /\ RangeMarketsCached(run)) =>
          lastResult'.status # "MetadataError"]_vars

\* the token ids a markets row holds
TokensOfRow(row) == {row.yes_token_id, row.no_token_id} \ {NoneTok}

\* C11: for every token id at most one markets row holds it as its yes or its no
\* token, whatever upsert_market calls were made.
C11_TokenResolvesToOneMarket ==
    \A i \in 1..Len(markets), j \in 1..Len(markets) :
        (TokensOfRow(markets[i]) \cap TokensOfRow(markets[j]) # {}) => i = j

\* the table an upsert works on
TableOf(op, ev, mk) == IF op = "upsert_event" THEN ev ELSE mk

\* the stored fields other than id and slug are the payload's
FieldsOverwritten(op, row, payload) ==
    IF op = "upsert_event"
    THEN row.event_id = payload.event_id /\ row.title = payload.title
    ELSE /\ row.event_id = payload.event_id
         /\ row.condition_id = payload.condition_id
         /\ row.yes_token_id = normalize_token_id(payload.yes_token_id)
         /\ row.no_token_id = normalize_token_id(payload.no_token_id)

\* an upsert whose slug is stored at index i of the table
UpdatesInPlace(op, before, after, i, result) ==
    /\ result.status = "ok"
    /\ Len(after) = Len(before)
    /\ result.id = before[i].id
    /\ after[i].id = before[i].id
    /\ after[i].slug = before[i].slug
    /\ FieldsOverwritten(op, after[i], result.payload)

OneRowPerSlug(rows) ==
    \A i \in 1..Len(rows), j \in 1..Len(rows) : rows[i].slug = rows[j].slug => i = j

\* C12: upsert_event and upsert_market keep one row per slug, and an upsert whose
\* slug is already stored adds no row, returns the id of the stored row, keeps
\* its id and slug and overwrites its other fields with the payload's.
C12_UpsertKeyedBySlug ==
    [][/\ OneRowPerSlug(events') /\ OneRowPerSlug(markets')
       /\ RowIndexBySlug(TableOf(lastResult'.op, events, markets),
                         lastResult'.payload.slug) # 0
          => UpdatesInPlace(lastResult'.op,
                            TableOf(lastResult'.op, events, markets),
                            TableOf(lastResult'.op, events', markets'),
                            RowIndexBySlug(TableOf(lastResult'.op, events, markets),
                                           lastResult'.payload.slug),
                            lastResult')]_vars

\* the block of the latest update of the key as the caller wrote it, NoBlock
\* when the caller never wrote the key
LastWritten(key) ==
    IF lastResult.written[key] = <<>> THEN NoBlock ELSE lastResult.written[key][1]

\* C13: get_sync_state returns None exactly when the key was never written and
\* the block of the latest update otherwise (0 included); the resolver, given no
\* bounds, starts at that block + 1 when there is one and at the head default
\* only when there is none.
C13_AbsentIsNotZero ==
    /\ lastResult.op = "get_sync_state" =>
          /\ lastResult.ret = NoBlock <=> lastResult.written[lastResult.key] = <<>>
          /\ lastResult.ret = LastWritten(lastResult.key)
    /\ (/\ lastResult.op = "determine_block_range"
        /\ lastResult.from_arg = NoBlock
        /\ lastResult.tx_block = NoBlock) =>
          lastResult.from_block =
              IF lastResult.written["trade_sync"] = <<>>
              THEN Max(0, lastResult.chainHead - HeadLookback)
              ELSE lastResult.written["trade_sync"][1] + 1

\* C13 witness: a read after block 0 was written returned 0
C13_Witness ==
    /\ lastResult.op = "get_sync_state"
    /\ lastResult.written[lastResult.key] = <<0>>
    /\ lastResult.ret = 0

\* C14: with a stored cursor N and neither bounds nor a reference transaction,
\* determine_block_range resolves from = N + 1 and to = the chain head.
C14_IncrementalRange ==
    (/\ lastResult.op = "determine_block_range"
     /\ lastResult.from_arg = NoBlock
     /\ lastResult.to_arg = NoBlock
     /\ lastResult.tx_block = NoBlock
     /\ lastResult.last # NoBlock) =>
        /\ lastResult.from_block = lastResult.last + 1
        /\ lastResult.to_block = lastResult.chainHead

\* C14 witness: the resolver returned an incremental range of several blocks
C14_Witness ==
    /\ lastResult.op = "determine_block_range"
    /\ lastResult.status = "ok"
    /\ lastResult.from_arg = NoBlock
    /\ lastResult.to_arg = NoBlock
    /\ lastResult.tx_block = NoBlock
    /\ lastResult.last # NoBlock
    /\ lastResult.from_block < lastResult.to_block

\* C15: a reference-transaction block fills every bound that is not given and no
\* bound that is; with no bound given the range is that block alone, whatever
\* the cursor and the head.
C15_TxBlockFillsUnsetBounds ==
    (lastResult.op = "determine_block_range" /\ lastResult.tx_block # NoBlock) =>
        /\ lastResult.from_block =
              IF lastResult.from_arg = NoBlock THEN lastResult.tx_block
              ELSE lastResult.from_arg
        /\ lastResult.to_block =
              IF lastResult.to_arg = NoBlock THEN lastResult.tx_block
              ELSE lastResult.to_arg

\* C15 witness: only the transaction block was given, below a stored cursor
C15_Witness ==
    /\ lastResult.op = "determine_block_range"
    /\ lastResult.from_arg = NoBlock
    /\ lastResult.to_arg = NoBlock
    /\ lastResult.tx_block # NoBlock
    /\ lastResult.tx_block < lastResult.last
    /\ lastResult.tx_block < lastResult.chainHead
    /\ lastResult.status = "ok"

\* the bounds by precedence: the explicit bound, else the transaction block,
\* else (from) the cursor + 1 or the head default, (to) the resolved explicit or
\* transaction from, or the head
ExpectedFrom(c) ==
    IF c.from_arg # NoBlock THEN c.from_arg
    ELSE IF c.tx_block # NoBlock THEN c.tx_block
    ELSE IF c.last # NoBlock THEN c.last + 1
    ELSE Max(0, c.chainHead - HeadLookback)

ExpectedTo(c) ==
    IF c.to_arg # NoBlock THEN c.to_arg
    ELSE IF c.tx_block # NoBlock THEN c.tx_block
    ELSE IF c.from_arg # NoBlock THEN c.from_arg
    ELSE c.chainHead

\* C16: determine_block_range raises the invalid-range error exactly when the
\* resolved from exceeds the resolved to; every pair it returns has from <= to.
C16_InvalidRangeExactly ==
    lastResult.op = "determine_block_range" =>
        /\ lastResult.status = "InvalidRange" <=>
              ExpectedFrom(lastResult) > ExpectedTo(lastResult)
        /\ lastResult.status = "ok" =>
              /\ lastResult.from_block <= lastResult.to_block
              /\ lastResult.from_block = ExpectedFrom(lastResult)
              /\ lastResult.to_block = ExpectedTo(lastResult)

\* C16 witness: the incremental call with the cursor at the head was refused
C16_Witness ==
    /\ lastResult.op = "determine_block_range"
    /\ lastResult.status = "InvalidRange"
    /\ lastResult.from_arg = NoBlock
    /\ lastResult.to_arg = NoBlock
    /\ lastResult.tx_block = NoBlock
    /\ lastResult.last = lastResult.chainHead

\* C17: normalize_token_id is idempotent: whenever it returns a value, it maps
\* that value to itself.
C17_NormalizeIdempotent ==
    (lastResult.op = "normalize_token_id" /\ lastResult.status = "ok") =>
        normalize_token_id(lastResult.ret) = lastResult.ret

\* the payload lacks a slug or a condition id
LacksKey(market) == market.slug = "" \/ market.conditionId = ""

HasRow(rows, slug) == \E i \in 1..Len(rows) : rows[i].slug = slug

\* C18: normalize_market_payload returns skip, not an error, for a payload that
\* lacks a slug or a condition id; a discovery pass stores no row for such a
\* payload and stores the other markets of the event.
C18_SkippedPayloadMakesNoRow ==
    [][/\ \A i \in 1..Len(markets') :
             markets'[i].slug # "" /\ markets'[i].condition_id # ""
       /\ markets' # markets =>
             \A k \in 1..Len(GammaEvent(run.event_slug, gammaVer).markets) :
                 IF LacksKey(GammaEvent(run.event_slug, gammaVer).markets[k])
                 THEN /\ normalize_market_payload(
                             GammaEvent(run.event_slug, gammaVer).markets[k], 1)
                         = SkipMarket
                      /\ ~HasRow(markets',
                             GammaEvent(run.event_slug, gammaVer).markets[k].slug)
                 ELSE HasRow(markets',
                             GammaEvent(run.event_slug, gammaVer).markets[k].slug)]_vars

\* C18 witness: a discovery pass over the catalogue with the two payloads that
\* lack a key stored the market that follows them
C18_Witness ==
    /\ gammaVer = 1
    /\ HasRow(markets, "m1")
    /\ HasRow(markets, "m2")
    /\ Len(markets) = 2

\* the words of the log a decode call was given
MakerAssetId(c) == c.log.data.words[2]
TakerAssetId(c) == c.log.data.words[3]
MakerAmount(c) == c.log.data.words[4]
TakerAmount(c) == c.log.data.words[5]

DecodedOk(c) == c.op = "decode_order_filled_log" /\ c.status = "ok"

\* C19: a decoded log has side BUY exactly when makerAssetId is 0 and
\* takerAssetId is not, SELL in every other case; its token id is takerAssetId
\* for BUY and makerAssetId for SELL.
C19_SideClassification ==
    DecodedOk(lastResult) =>
        /\ lastResult.ret.side \in {"BUY", "SELL"}
        /\ lastResult.ret.side = "BUY" <=>
              (MakerAssetId(lastResult) = 0 /\ TakerAssetId(lastResult) # 0)
        /\ lastResult.ret.side = "BUY" =>
              lastResult.ret.token_id = StrOfInt(TakerAssetId(lastResult))
        /\ lastResult.ret.side = "SELL" =>
              lastResult.ret.token_id = StrOfInt(MakerAssetId(lastResult))

\* C19 witness: a log with both asset ids 0 was decoded as SELL
C19_Witness ==
    /\ DecodedOk(lastResult)
    /\ MakerAssetId(lastResult) = 0
    /\ TakerAssetId(lastResult) = 0
    /\ lastResult.ret.side = "SELL"

(***************************************************************************)
(* Reading a decimal string back, and arithmetic on digit sequences, to    *)
(* compare a decoded price or size with the quotient it stands for.        *)
(***************************************************************************)
PositionOf(s, c) ==
    IF \E i \in 1..Len(s) : s[i] = c THEN SetMin({i \in 1..Len(s) : s[i] = c})
    ELSE 0

MantissaOf(s) ==
    IF PositionOf(s, "E") = 0 THEN s ELSE SubSeq(s, 1, PositionOf(s, "E") - 1)

SignedInt(s) ==
    IF Head(s) = "-" THEN 0 - IntOfDigits(Tail(s), Len(s) - 1, 10)
    ELSE IntOfDigits(Tail(s), Len(s) - 1, 10)

ExponentOf(s) ==
    IF PositionOf(s, "E") = 0 THEN 0
    ELSE SignedInt(SubSeq(s, PositionOf(s, "E") + 1, Len(s)))

FractionLen(m) ==
    IF PositionOf(m, ".") = 0 THEN 0 ELSE Len(m) - PositionOf(m, ".")

ZeroDigits(n) == [i \in 1..n |-> 0]

RECURSIVE DropLeadingZeros(_)
DropLeadingZeros(ds) ==
    IF Len(ds) > 1 /\ Head(ds) = 0 THEN DropLeadingZeros(Tail(ds)) ELSE ds

DigitValues(m) ==
    DropLeadingZeros([i \in 1..Len(SelectSeq(m, LAMBDA c : c # ".")) |->
                          HexVal[SelectSeq(m, LAMBDA c : c # ".")[i]]])

\* the value a decimal string denotes: coefficient digits and exponent
ParseDecimal(s) ==
    [coef |-> DigitValues(MantissaOf(s)),
     exp |-> ExponentOf(s) - FractionLen(MantissaOf(s))]

\* Numbers too large for an integer are sequences of base-1000 digits, the
\* least significant one first, of a width wide enough for the result.
DigitAt(ds, p) == IF p < Len(ds) THEN ds[Len(ds) - p] ELSE 0

LimbAt(ds, j) ==
    DigitAt(ds, 3 * j - 3) + 10 * DigitAt(ds, 3 * j - 2) + 100 * DigitAt(ds, 3 * j - 1)

Limbs(ds, width) == [j \in 1..width |-> LimbAt(ds, j)]

\* a carry enters position i when a lower position overflows and every
\* position between them is full
CarryInto(t, i) ==
    \E j \in 1..(i - 1) : t[j] >= 1000 /\ \A k \in (j + 1)..(i - 1) : t[k] = 999

\* the number whose position i holds t[i] < 1999
Carried(t) ==
    [i \in 1..Len(t) |-> (t[i] + (IF CarryInto(t, i) THEN 1 ELSE 0)) % 1000]

\* base-1000 digit j of the integer n
LimbOfInt(n, j) ==
    CASE j = 1 -> n % 1000
      [] j = 2 -> (n \div 1000) % 1000
      [] j = 3 -> (n \div 1000000) % 1000
      [] j = 4 -> n \div 1000000000
      [] OTHER -> 0

\* what the products xs[i] * m contribute to position j
ColumnSum(xs, m, j) ==
    LimbOfInt(xs[j] * m, 1)
    + (IF j > 1 THEN LimbOfInt(xs[j - 1] * m, 2) ELSE 0)
    + (IF j > 2 THEN LimbOfInt(xs[j - 2] * m, 3) ELSE 0)
    + (IF j > 3 THEN LimbOfInt(xs[j - 3] * m, 4) ELSE 0)

\* xs * m for m < 2^31 / 1000
BigTimes(xs, m) ==
    Carried([j \in 1..Len(xs) |->
                 (ColumnSum(xs, m, j) % 1000)
                 + (IF j > 1 THEN ColumnSum(xs, m, j - 1) \div 1000 ELSE 0)])

\* xs + n
BigPlus(xs, n) == Carried([j \in 1..Len(xs) |-> xs[j] + LimbOfInt(n, j)])

LastDifference(x, y) == SetMax({i \in 1..Len(x) : x[i] # y[i]})

BigLeq(x, y) == x = y \/ x[LastDifference(x, y)] < y[LastDifference(x, y)]

\* wide enough for coef * 10^(exp + k) * b and for a * 10^k
Width(d, k) == (Max(Len(d.coef) + d.exp, 10) + k + 14) \div 3

\* coef * 10^exp * b and a, both scaled by 10^k
ScaledProduct(d, b, k) ==
    BigTimes(Limbs(d.coef \o ZeroDigits(d.exp + k), Width(d, k)), b)

ScaledNumerator(d, a, k) == Limbs(DigitsOfInt(a) \o ZeroDigits(k), Width(d, k))

\* d = a / b exactly
IsExactQuotient(d, a, b) ==
    ScaledProduct(d, b, Max(0, 0 - d.exp)) = ScaledNumerator(d, a, Max(0, 0 - d.exp))

\* the power of ten that turns half a unit in the DecimalPrec-th significant
\* digit of d into 1/2
PrecShift(d) == DecimalPrec - Len(d.coef) - d.exp

\* d is a / b to within half a unit in its DecimalPrec-th significant digit:
\* the scaled integers differ by at most b / 2
IsRoundedQuotient(d, a, b) ==
    /\ Len(d.coef) <= DecimalPrec
    /\ PrecShift(d) >= 0
    /\ BigLeq(ScaledProduct(d, b, PrecShift(d)),
              BigPlus(ScaledNumerator(d, a, PrecShift(d)), b \div 2))
    /\ BigLeq(ScaledNumerator(d, a, PrecShift(d)),
              BigPlus(ScaledProduct(d, b, PrecShift(d)), b \div 2))

\* a / b has a finite decimal expansion (of fewer than DecimalPrec digits for
\* the amounts here): b's factors other than 2 and 5 divide a
RECURSIVE WithoutFactor(_, _)
WithoutFactor(n, f) == IF n % f = 0 THEN WithoutFactor(n \div f, f) ELSE n

Terminates(a, b) == a % WithoutFactor(WithoutFactor(b, 2), 5) = 0

TokenAmount(c) ==
    IF c.ret.side = "BUY" THEN TakerAmount(c) ELSE MakerAmount(c)

CollateralAmount(c) ==
    IF c.ret.side = "BUY" THEN MakerAmount(c) ELSE TakerAmount(c)

\* no trailing zeros, no leading zeros: the minimal representation
IsCanonical(d) ==
    /\ Len(d.coef) >= 1
    /\ d.coef = <<0>> => d.exp = 0
    /\ d.coef # <<0>> => d.coef[1] # 0 /\ d.coef[Len(d.coef)] # 0

SizeIsQuotient(c, size) ==
    /\ IsCanonical(size)
    /\ IF TokenAmount(c) = 0 THEN c.ret.size = <<"0">>
       ELSE IsExactQuotient(size, TokenAmount(c), UsdcScale)

PriceIsQuotient(c, price) ==
    /\ IsCanonical(price)
    /\ IF TokenAmount(c) = 0 THEN c.ret.price = <<"0">>
       ELSE /\ IsRoundedQuotient(price, CollateralAmount(c), TokenAmount(c))
            /\ Terminates(CollateralAmount(c), TokenAmount(c)) =>
                   IsExactQuotient(price, CollateralAmount(c), TokenAmount(c))

IsExampleLog(c) ==
    /\ MakerAssetId(c) = 0 /\ TakerAssetId(c) = 555
    /\ MakerAmount(c) = 1000000 /\ TakerAmount(c) = 2000000

C21_ReaderSeesWholeBatches ==
    /\ lastResult.op = "select" =>
           lastResult.rows = lastResult.before \/ lastResult.rows = lastResult.after
    /\ pc = "commit" => run.pending = insert_trades(run.trades0, run.to_insert).rows

\* C21 witness: the reader selects when one of a batch's two new rows is
\* inserted and the other is not yet
C21_Witness ==
    /\ lastResult.op = "select"
    /\ Cardinality(lastResult.pending) = Cardinality(lastResult.before) + 1
    /\ Cardinality(lastResult.after) = Cardinality(lastResult.before) + 2

InBlocks(row, c) ==
    /\ c.from_block # NoBlock => c.from_block <= row.block_number
    /\ c.to_block # NoBlock => row.block_number <= c.to_block

\* the stored trades a query is about: those of the market, or those whose
\* token id is the canonical form of the token asked for
Matching(c) ==
    {row \in trades :
        /\ InBlocks(row, c)
        /\ IF c.op = "fetch_trades_for_market" THEN row.market_id = c.by
           ELSE row.token_id # NoneTok /\ normalize_token_id(row.token_id)
                                              = normalize_token_id(c.by)}

MoreRecent(row, matching) ==
    {other \in matching :
        \/ other.block_number > row.block_number
        \/ other.block_number = row.block_number /\ other.log_index > row.log_index}

FetchedOk(c) ==
    c.op \in {"fetch_trades_for_market", "fetch_trades_for_token"} /\ c.status = "ok"

\* C22: a trade query returns stored trades that match the market or token and
\* the inclusive block bounds, most recent first (block number, then log index,
\* descending): the i-th row returned is the matching row with offset + i - 1
\* more recent matching rows, and the list has limit rows or as many as are
\* left after the skipped ones.
C22_FetchReturnsOrderedPage ==
    FetchedOk(lastResult) =>
        /\ Len(lastResult.ret) =
               Min(lastResult.limit,
                   Max(0, Cardinality(Matching(lastResult)) - lastResult.offset))
        /\ \A i \in 1..Len(lastResult.ret) :
              /\ lastResult.ret[i] \in Matching(lastResult)
              /\ Cardinality(MoreRecent(lastResult.ret[i], Matching(lastResult)))
                     = lastResult.offset + i - 1

\* C22 witness: a query by token in hex form from block 0 on that skips a row
\* and returns one of the two that are left
C22_Witness ==
    /\ FetchedOk(lastResult)
    /\ lastResult.op = "fetch_trades_for_token"
    /\ lastResult.by = <<"0", "x", "5">>
    /\ lastResult.offset = 1 /\ lastResult.limit = 1
    /\ lastResult.from_block = 0
    /\ Cardinality(Matching(lastResult)) = 3
    /\ Len(lastResult.ret) = 1

RunEnds == pc # "idle" /\ pc' = "idle"

\* C23: in every run the cursor is written only by the step after the insert
\* committed, which ends the run (so at most once); a run that raises at any
\* step leaves the cursor as it found it, and a run that completes leaves it at
\* its to_block.
C23_CursorWrittenAfterInsert ==
    [][/\ sync_state'["trade_sync"] # sync_state["trade_sync"] =>
              /\ pc = "cursor" /\ RunEnds
              /\ trades = insert_trades(run.trades0, run.to_insert).rows
              /\ trades' = trades
       /\ RunEnds /\ lastResult'.status # "ok" =>
              sync_state'["trade_sync"] = run.sync0
       /\ RunEnds /\ lastResult'.status = "ok" =>
              /\ pc = "cursor"
              /\ sync_state["trade_sync"] = run.sync0
              /\ sync_state'["trade_sync"] = run.to_block]_vars

\* C23 witness: the last of several runs completed over more than one block,
\* stored trades and left the cursor at its to_block
C23_Witness ==
    /\ pc = "idle"
    /\ lastResult.status = "ok"
    /\ lastResult.inserted_trades > 0
    /\ nruns = MaxRuns
    /\ sync_state["trade_sync"] = lastResult.to_block
    /\ lastResult.from_block < lastResult.to_block

\* the step that starts the run following a crash between insert and cursor write
Resumes == pc = "idle" /\ pc' = "discover" /\ prevRun # NoPrev

\* the run following such a crash completes
ResumedRunCompletes == RunEnds /\ lastResult'.status = "ok" /\ prevRun # NoPrev

\* after the resumed run the table holds every row the crashed run committed
\* and no (tx_hash, log_index) twice
TradesKept ==
    /\ prevRun.stored \subseteq trades'
    /\ \A a \in trades', b \in trades' :
          (a.tx_hash = b.tx_hash /\ a.log_index = b.log_index) => a = b

\* C24 as stated: after a crash between insert_trades and update_sync_state the
\* next incremental run starts at the from block of the crashed run, whether or
\* not a cursor existed, and once it completes the table holds the crashed run's
\* trades without duplicates
C24_ResumeSameFromBlock ==
    [][/\ Resumes => run'.from_block = prevRun.from_block
       /\ ResumedRunCompletes => TradesKept]_vars

\* C24 amended: with a cursor the next incremental run starts at the crashed
\* run's from block (cursor + 1); without one it starts at head - 10 of the head
\* at restart, never before the crashed run's from block; in both cases the
\* completed run leaves the crashed run's trades stored once each
C24_ResumeFromCursorOrHead ==
    [][/\ Resumes =>
             /\ prevRun.sync0 = get_sync_state(sync_state, "trade_sync")
             /\ IF prevRun.sync0 # NoBlock
                THEN /\ run'.from_block = prevRun.from_block
                     /\ run'.from_block = prevRun.sync0 + 1
                ELSE /\ run'.from_block = Max(0, head - HeadLookback)
                     /\ run'.from_block >= prevRun.from_block
       /\ ResumedRunCompletes => TradesKept]_vars

\* C24 witness: with no cursor, a run resumed after such a crash from a later
\* block than the crashed run has inserted its batch and is about to write the
\* cursor, the crashed run's trades still stored
C24_Witness ==
    /\ pc = "cursor"
    /\ prevRun # NoPrev
    /\ prevRun.sync0 = NoBlock
    /\ get_sync_state(sync_state, "trade_sync") = NoBlock
    /\ run.from_block > prevRun.from_block
    /\ prevRun.stored # {}
    /\ prevRun.stored \subseteq trades

RECURSIVE Concatenated(_)
Concatenated(queries) ==
    IF queries = <<>> THEN <<>>
    ELSE Concatenated(SubSeq(queries, 1, Len(queries) - 1))
             \o queries[Len(queries)].logs

\* the queries in which block b lies
QueriesOf(b, queries) ==
    {i \in 1..Len(queries) : queries[i].fromBlock <= b /\ b <= queries[i].toBlock}

Span(q) == q.toBlock - q.fromBlock + 1

\* the queries of a returned call tile [from_block, to_block] in chunks
Tiles(c) ==
    /\ Len(c.queries) >= 1
    /\ c.queries[1].fromBlock = c.from_block
    /\ c.queries[Len(c.queries)].toBlock = c.to_block
    /\ \A i \in 1..Len(c.queries) :
          /\ Span(c.queries[i]) >= 1
          /\ Span(c.queries[i]) <= c.chunk_size
          /\ i < Len(c.queries) =>
                /\ Span(c.queries[i]) = c.chunk_size
                /\ c.queries[i + 1].fromBlock = c.queries[i].toBlock + 1
    /\ \A b \in c.from_block..c.to_block :
          Cardinality(QueriesOf(b, c.queries)) = 1
    /\ c.ret = Concatenated(c.queries)

CollectReturned == lastResult.op = "_collect_logs" /\ lastResult.status = "ok"

\* C25: a call of _collect_logs with from <= to and chunk size >= 1 ends, and
\* when it returns its queries were consecutive, non-overlapping chunks from
\* from to to, each of chunk_size blocks but possibly the last, every block
\* queried once, and the result is the answers concatenated in that order
C25_CollectLogsTilesRange ==
    /\ [](CollectReturned => Tiles(lastResult))
    /\ (pc = "collect" ~> lastResult.op = "_collect_logs")

\* C25 witness: a call over several chunks, the last one shorter, has returned
\* logs
C25_Witness ==
    /\ CollectReturned
    /\ Len(lastResult.queries) >= 3
    /\ Span(lastResult.queries[Len(lastResult.queries)]) < lastResult.chunk_size
    /\ lastResult.chunk_size > 1
    /\ lastResult.from_block > 0
    /\ Len(lastResult.ret) > Len(lastResult.queries)

RequestsOf(trace) == {i \in 1..Len(trace) : trace[i].kind = "request"}

\* the trace is request 0, sleep 0, request 1, sleep 1, ...: every request but
\* the last failed, and the sleep after the failed attempt k lasts base * 2^k
BacksOff(c) ==
    \A i \in 1..Len(c.trace) :
        /\ c.trace[i].attempt = (i - 1) \div 2
        /\ IF i % 2 = 1
           THEN /\ c.trace[i].kind = "request"
                /\ i < Len(c.trace) => c.trace[i].is \in RequestErrors
           ELSE /\ c.trace[i].kind = "sleep"
                /\ c.trace[i].is = c.retry_base_delay * 2 ^ c.trace[i].attempt

LastOf(trace) == trace[Len(trace)]

\* C26: a call of _get_json sends at most max_retries requests; it returns at
\* the first request that succeeds; it sleeps base * 2^k after the failed
\* attempt k only when another attempt follows; when all attempts fail it raises
\* the error of the last one, the last thing it did being that request
C26_GetJsonRetries ==
    lastResult.op = "_get_json" =>
        /\ Cardinality(RequestsOf(lastResult.trace)) <= Max(0, lastResult.max_retries)
        /\ BacksOff(lastResult)
        /\ lastResult.trace # <<>> => LastOf(lastResult.trace).kind = "request"
        /\ lastResult.status = "ok" <=>
              (lastResult.trace # <<>> /\ LastOf(lastResult.trace).is = "ok")
        /\ lastResult.status = "raised" /\ lastResult.trace # <<>> =>
              /\ Cardinality(RequestsOf(lastResult.trace)) = lastResult.max_retries
              /\ lastResult.error =
                     ErrorOf(LastOf(lastResult.trace).is, LastOf(lastResult.trace).attempt)

\* C26 witness: a call with three attempts and a positive delay has failed
\* three times with different errors and raised
C26_Witness ==
    /\ lastResult.op = "_get_json"
    /\ lastResult.status = "raised"
    /\ lastResult.retry_base_delay > 0
    /\ Len(lastResult.trace) = 5
    /\ lastResult.trace[1].is # lastResult.trace[5].is
    /\ lastResult.trace[4].is = 2 * lastResult.trace[2].is

\* an object with at least one field
IsNonEmptyDict(data) ==
    data.type = "dict" /\ (data.data.present \/ data.events.present \/ data.extra)

\* the first element the search response holds, as a one-element set
FirstFound(data) ==
    IF data.type = "list" /\ data.items # <<>> THEN {data.items[1]}
    ELSE IF data.type = "dict" /\ IsNonEmptyList(data.data) THEN {data.data.items[1]}
    ELSE IF data.type = "dict" /\ IsNonEmptyList(data.events)
    THEN {data.events.items[1]}
    ELSE {}

\* what the call does once the direct response is not accepted
FallsBack(c) ==
    /\ c.searched
    /\ c.search.type # "raise" =>
          IF FirstFound(c.search) = {} THEN c.status = "ValueError"
          ELSE c.status = "ok" /\ c.object \in FirstFound(c.search)

\* C27: get_event_with_markets returns the direct response exactly when it is
\* a non-empty object; otherwise it queries the search endpoint, returns the
\* first element of the bare or enveloped list, and fails with not-found when
\* there is none
C27_DirectAcceptedWhenNonEmpty ==
    lastResult.op = "get_event_with_markets" =>
        IF IsNonEmptyDict(lastResult.direct)
        THEN /\ lastResult.status = "ok"
             /\ lastResult.from = "direct"
             /\ ~lastResult.searched
        ELSE FallsBack(lastResult)

\* a call of determine_block_range without bounds, reference transaction or cursor
IsDefaultRange(c) ==
    /\ c.op = "determine_block_range"
    /\ c.from_arg = NoBlock
    /\ c.to_arg = NoBlock
    /\ c.tx_block = NoBlock
    /\ c.last = NoBlock

\* C28 as stated: such a call returns from = chainHead - 10 and to = chainHead
\* for every chain head, heads below 10 included
C28_DefaultFromHeadMinusTen ==
    IsDefaultRange(lastResult) =>
        /\ lastResult.status = "ok"
        /\ lastResult.from_block = lastResult.chainHead - 10
        /\ lastResult.to_block = lastResult.chainHead

\* C28 amended: such a call returns to = chainHead and from = chainHead - 10
\* when the head is at least 10, from = 0 when it is below
C28_DefaultFromClampedAtZero ==
    IsDefaultRange(lastResult) =>
        /\ lastResult.status = "ok"
        /\ lastResult.to_block = lastResult.chainHead
        /\ lastResult.chainHead >= 10 =>
              lastResult.from_block = lastResult.chainHead - 10
        /\ lastResult.chainHead < 10 => lastResult.from_block = 0

\* C28 witness: such a call on a chain whose head is below 10 returned the
\* range from block 0 to the head
C28_Witness ==
    /\ IsDefaultRange(lastResult)
    /\ lastResult.chainHead > 0
    /\ lastResult.chainHead < 10
    /\ lastResult.from_block = 0
    /\ lastResult.to_block = lastResult.chainHead

\* the call of this step is an upsert_event whose slug no row holds
UpsertsNewSlug ==
    /\ lastResult'.op = "upsert_event"
    /\ RowIndexBySlug(events, lastResult'.payload.slug) = 0

\* C29: upsert_event with a slug that is not stored inserts a row for it and
\* returns the id of that row, whatever other events are stored, two events
\* without an external id (event_id "") included
C29_NewSlugAlwaysInserted ==
    [][UpsertsNewSlug =>
           /\ lastResult'.status = "ok"
           /\ Len(events') = Len(events) + 1
           /\ events'[Len(events')].slug = lastResult'.payload.slug
           /\ events'[Len(events')].id = lastResult'.id
           /\ \A i \in 1..Len(events) : events'[i] = events[i]]_vars

PairwiseDistinct(seq) ==
    \A i \in 1..Len(seq), j \in 1..Len(seq) : seq[i] = seq[j] => i = j

\* C30: when the token ids of the payload are pairwise distinct,
\* normalize_market_payload does not give YES and NO the same token id,
\* whatever the outcome labels are
C30_YesAndNoDiffer ==
    (/\ lastResult.op = "normalize_market_payload"
     /\ lastResult.status = "ok"
     /\ PairwiseDistinct(lastResult.market.clobTokenIds)
     /\ lastResult.yes_token_id # NoneTok)
        => lastResult.yes_token_id # lastResult.no_token_id

\* the outcomes of the trades of the batch run_indexer is building
BatchOutcomes == {run.to_insert[i].outcome : i \in 1..Len(run.to_insert)}

\* C31: every trade run_indexer puts into its batch has outcome YES or NO, so
\* no run stores a trade with outcome UNKNOWN
C31_OutcomeIsYesOrNo ==
    /\ pc # "idle" => BatchOutcomes \subseteq {"YES", "NO"}
    /\ \A t \in trades : t.outcome \in {"YES", "NO"}

\* C31 witness: a run has built a batch holding a YES and a NO trade, found by
\* tokens the catalogue served in decimal and in hex form, and inserted it
C31_Witness ==
    /\ pc = "cursor"
    /\ BatchOutcomes = {"YES", "NO"}
    /\ \E t \in trades : t.outcome = "NO" /\ t.token_id = <<"6">>
    /\ \E t \in trades : t.outcome = "YES" /\ t.token_id = <<"5">>

====
